---- MODULE Spec2Model ----
(***************************************************************************)
(* A model of the numerical core of the Attractor Builder add-on           *)
(* (src/__init__.py): the whitelisting expression evaluator, the vector    *)
(* field built from three axis expressions, the integration steppers and   *)
(* the trajectory-generation loop of ATTRACTOR_OT_build.execute together   *)
(* with the global raw-sample lists it fills.                              *)
(*                                                                         *)
(* Floating-point numbers are modelled as pairs <<n, d>>: d > 0 is the     *)
(* exact rational n/d in lowest terms, <<1,0>> is +Infinity, <<-1,0>> is   *)
(* -Infinity and <<0,0>> is NaN.  A finite result whose magnitude exceeds  *)
(* MaxFloat overflows to an infinity, as IEEE arithmetic does; rounding is *)
(* not modelled.                                                           *)
(***************************************************************************)
EXTENDS Integers, Sequences, FiniteSets, TLC

\* ------------------------------------------------------------------------
\* Bounds of the model
\* ------------------------------------------------------------------------

\* Largest finite magnitude of a float (stands for the float range).
MaxFloat == 200

\* Largest number of recorded steps (props.steps, whose minimum is 2).
MaxSteps == 2

\* Largest burn-in count (props.burn_in, whose minimum is 0).
MaxBurnIn == 1

\* ------------------------------------------------------------------------
\* Floating-point values
\* ------------------------------------------------------------------------

NaN == <<0, 0>>

PosInf == <<1, 0>>

NegInf == <<0 - 1, 0>>

Abs(n) == IF n < 0 THEN 0 - n ELSE n

Sgn(n) == IF n < 0 THEN 0 - 1 ELSE IF n > 0 THEN 1 ELSE 0

RECURSIVE GCD(_, _)
GCD(a, b) == IF b = 0 THEN a ELSE GCD(b, a % b)

isnan(c) == c = NaN

isinf(c) == c[2] = 0 /\ c[1] # 0

IsFinite(c) == c[2] > 0

\* The float nearest to n/d (d > 0): the fraction in lowest terms, or an
\* infinity when it is out of range.
Flt(n, d) ==
    IF Abs(n) > MaxFloat * d
    THEN <<Sgn(n), 0>>
    ELSE LET g == GCD(Abs(n), d) IN <<n \div g, d \div g>>

F(n) == Flt(n, 1)

FNeg(a) == <<0 - a[1], a[2]>>

FAdd(a, b) ==
    IF isnan(a) \/ isnan(b) THEN NaN
    ELSE IF isinf(a) /\ isinf(b) THEN (IF a = b THEN a ELSE NaN)
    ELSE IF isinf(a) THEN a
    ELSE IF isinf(b) THEN b
    ELSE Flt(a[1] * b[2] + b[1] * a[2], a[2] * b[2])

FSub(a, b) == FAdd(a, FNeg(b))

FMul(a, b) ==
    IF isnan(a) \/ isnan(b) THEN NaN
    ELSE IF isinf(a) \/ isinf(b)
         THEN (IF a[1] = 0 \/ b[1] = 0 THEN NaN ELSE <<Sgn(a[1]) * Sgn(b[1]), 0>>)
    ELSE Flt(a[1] * b[1], a[2] * b[2])

\* a / b for b # 0 (the callers raise on a zero divisor before dividing).
FDiv(a, b) ==
    IF isnan(a) \/ isnan(b) THEN NaN
    ELSE IF isinf(a) THEN (IF isinf(b) THEN NaN ELSE <<Sgn(a[1]) * Sgn(b[1]), 0>>)
    ELSE IF isinf(b) THEN <<0, 1>>
    ELSE Flt(a[1] * b[2] * Sgn(b[1]), a[2] * Abs(b[1]))

\* a < b and a <= b on floats: every comparison with NaN is false.
FLt(a, b) ==
    /\ ~isnan(a)
    /\ ~isnan(b)
    /\ a # b
    /\ IF isinf(a) THEN a = NegInf
       ELSE IF isinf(b) THEN b = PosInf
       ELSE a[1] * b[2] < b[1] * a[2]

FLe(a, b) == ~isnan(a) /\ ~isnan(b) /\ (a = b \/ FLt(a, b))

FAbs(a) == <<Abs(a[1]), a[2]>>

\* floor(n/d) for d > 0.
FloorDiv(n, d) == n \div d

\* Python's float %: the result has the sign of the divisor (b # 0).
FMod(a, b) ==
    IF isnan(a) \/ isnan(b) \/ isinf(a) THEN NaN
    ELSE IF isinf(b)
         THEN (IF a[1] = 0 \/ Sgn(a[1]) = Sgn(b[1]) THEN a ELSE b)
    ELSE LET q == FDiv(a, b)
             k == FloorDiv(q[1], q[2])
         IN  FSub(a, FMul(F(k), b))

\* ------------------------------------------------------------------------
\* Expression trees (the result of ast.parse(expr, mode="eval"))
\* ------------------------------------------------------------------------

\* A node of Python's ast: t is the node class, id the identifier it
\* carries (a Name's id, an operator's class, an Attribute's attr, a
\* Constant's kind), val a Constant's value, kids its child expressions and
\* kw the keyword nodes of a Call.  A Call's kids are its func followed by
\* its positional args.  A Constant's kind tells what float(node.value)
\* does: "num" (an int or float literal), "bool" (True/False), "strnum" (a
\* string literal float() parses, val being the number), "strbad" (a
\* string literal float() rejects) and "none" (None).
Node(t, id, val, kids, kw) == [t |-> t, id |-> id, val |-> val, kids |-> kids, kw |-> kw]

Constant(kind, v) == Node("Constant", kind, v, <<>>, <<>>)

Num(n) == Constant("num", F(n))

Name(id) == Node("Name", id, NaN, <<>>, <<>>)

UnaryOp(op, operand) == Node("UnaryOp", op, NaN, <<operand>>, <<>>)

BinOp(left, op, right) == Node("BinOp", op, NaN, <<left, right>>, <<>>)

Call(func, args, keywords) == Node("Call", "", NaN, <<func>> \o args, keywords)

keyword(arg, value) == Node("keyword", arg, NaN, <<value>>, <<>>)

Attribute(value, attr) == Node("Attribute", attr, NaN, <<value>>, <<>>)

Subscript(value, slice) == Node("Subscript", "", NaN, <<value, slice>>, <<>>)

Expression(body) == Node("Expression", "", NaN, <<body>>, <<>>)

\* The text of an expression that does not parse.
SyntaxErr == Node("<unparseable>", "", NaN, <<>>, <<>>)

Range(s) == {s[i] : i \in DOMAIN s}

\* ------------------------------------------------------------------------
\* 4. Safe expression parsing (AST evaluation)
\* ------------------------------------------------------------------------

_ALLOWED_VARS == {"x", "y", "z"}

_ALLOWED_FUNCS ==
    {"sin", "cos", "tan", "asin", "acos", "atan", "sinh", "cosh", "tanh",
     "exp", "log", "sqrt", "pow", "fabs"}

\* Every name of _ALLOWED_FUNCS is an attribute of math.
_MATH_FUNCS_MAP == _ALLOWED_FUNCS

_ALLOWED_NODES ==
    {"Expression", "BinOp", "UnaryOp", "Call", "Name", "Load", "Constant",
     "Add", "Sub", "Mult", "Div", "Pow", "Mod", "USub", "UAdd"}

\* The outcome of an evaluation: a value, or the class of the exception
\* raised.  visited (the nodes _eval_ast was entered on) and called (the
\* callables it invoked) record how the outcome was computed.
Ok(v, vis, cl) == [ok |-> TRUE, val |-> v, err |-> "", visited |-> vis, called |-> cl]

Raise(kind, vis, cl) == [ok |-> FALSE, val |-> NaN, err |-> kind, visited |-> vis, called |-> cl]

RECURSIVE IntPow(_, _)
IntPow(a, k) == IF k = 0 THEN F(1) ELSE FMul(a, IntPow(a, k - 1))

\* operator.pow on floats, for an integer exponent.
PyPow(a, b) ==
    CASE b = F(0) -> [ok |-> TRUE, val |-> F(1), err |-> ""]
      [] isnan(a) \/ isnan(b) -> [ok |-> TRUE, val |-> NaN, err |-> ""]
      [] IsFinite(b) /\ b[2] = 1 /\ b[1] > 0 ->
            LET r == IntPow(a, b[1])
            IN  IF isinf(r) /\ IsFinite(a)
                THEN [ok |-> FALSE, val |-> NaN, err |-> "OverflowError"]
                ELSE [ok |-> TRUE, val |-> r, err |-> ""]
      [] IsFinite(b) /\ b[2] = 1 /\ b[1] < 0 ->
            IF a = F(0)
            THEN [ok |-> FALSE, val |-> NaN, err |-> "ZeroDivisionError"]
            ELSE [ok |-> TRUE, val |-> FDiv(F(1), IntPow(a, 0 - b[1])), err |-> ""]

\* The operator table of line 183 applied to two floats; an operator class
\* outside the table gives None, and calling None raises TypeError.
ApplyBinOp(op, a, b) ==
    CASE op = "Add" -> [ok |-> TRUE, val |-> FAdd(a, b), err |-> ""]
      [] op = "Sub" -> [ok |-> TRUE, val |-> FSub(a, b), err |-> ""]
      [] op = "Mult" -> [ok |-> TRUE, val |-> FMul(a, b), err |-> ""]
      [] op = "Div" ->
            IF b = F(0)
            THEN [ok |-> FALSE, val |-> NaN, err |-> "ZeroDivisionError"]
            ELSE [ok |-> TRUE, val |-> FDiv(a, b), err |-> ""]
      [] op = "Mod" ->
            IF b = F(0)
            THEN [ok |-> FALSE, val |-> NaN, err |-> "ZeroDivisionError"]
            ELSE [ok |-> TRUE, val |-> FMod(a, b), err |-> ""]
      [] op = "Pow" -> PyPow(a, b)
      [] OTHER -> [ok |-> FALSE, val |-> NaN, err |-> "TypeError"]

\* The operator table of line 180.
ApplyUnaryOp(op, a) ==
    CASE op = "UAdd" -> [ok |-> TRUE, val |-> a, err |-> ""]
      [] op = "USub" -> [ok |-> TRUE, val |-> FNeg(a), err |-> ""]
      [] OTHER -> [ok |-> FALSE, val |-> NaN, err |-> "TypeError"]

\* float(node.value) of a Constant.
ConstantValue(node) ==
    CASE node.id \in {"num", "bool", "strnum"} -> [ok |-> TRUE, val |-> node.val, err |-> ""]
      [] node.id = "strbad" -> [ok |-> FALSE, val |-> NaN, err |-> "ValueError"]
      [] OTHER -> [ok |-> FALSE, val |-> NaN, err |-> "TypeError"]

\* _MATH_FUNCS_MAP[name](*args) for the functions the model computes exactly
\* (fabs and pow); a wrong number of arguments raises TypeError.
MathCall(name, args) ==
    CASE name = "fabs" ->
            IF Len(args) # 1
            THEN [ok |-> FALSE, val |-> NaN, err |-> "TypeError"]
            ELSE [ok |-> TRUE, val |-> FAbs(args[1]), err |-> ""]
      [] name = "pow" ->
            IF Len(args) # 2
            THEN [ok |-> FALSE, val |-> NaN, err |-> "TypeError"]
            ELSE LET r == PyPow(args[1], args[2])
                 IN  IF r.err = "ZeroDivisionError"
                     THEN [ok |-> FALSE, val |-> NaN, err |-> "ValueError"]
                     ELSE r

\* The node itself joins what its evaluated children visited.
Visit(node, r) == [r EXCEPT !.visited = @ \cup {node}]

\* Line 174: float(node.value).
EvalConstant(node, c) ==
    IF c.ok THEN Ok(c.val, {node}, {"float"}) ELSE Raise(c.err, {node}, {"float"})

\* Lines 180-181 once the operand has been evaluated to r.
EvalUnaryOp(node, r, v) ==
    IF ~r.ok THEN Visit(node, r)
    ELSE IF v.ok THEN Ok(v.val, r.visited \cup {node}, r.called \cup {node.id})
    ELSE Raise(v.err, r.visited \cup {node}, r.called)

\* Lines 183-184 once the left operand has been evaluated to l and, if
\* that did not raise, the right one to r and the operator applied to v.
EvalBinOp(node, l, r, v) ==
    IF ~l.ok THEN Visit(node, l)
    ELSE IF ~r.ok THEN Raise(r.err, l.visited \cup r.visited \cup {node}, l.called \cup r.called)
    ELSE IF v.ok
         THEN Ok(v.val, l.visited \cup r.visited \cup {node}, l.called \cup r.called \cup {node.id})
    ELSE IF node.id \in {"Div", "Mod", "Pow"}
         THEN Raise(v.err, l.visited \cup r.visited \cup {node}, l.called \cup r.called \cup {node.id})
         ELSE Raise(v.err, l.visited \cup r.visited \cup {node}, l.called \cup r.called)

\* Lines 186-187 once the arguments have been evaluated to a and, if none
\* raised, the function applied to v.
EvalCall(node, a, v) ==
    IF ~a.ok THEN Raise(a.err, a.visited, a.called)
    ELSE IF v.ok THEN Ok(v.val, a.visited, a.called \cup {node.kids[1].id})
    ELSE Raise(v.err, a.visited, a.called \cup {node.kids[1].id})

\* One more evaluated argument r joined to the arguments evaluated so far.
WithArg(acc, r) ==
    [vals |-> Append(acc.vals, r.val),
     visited |-> acc.visited \cup r.visited,
     called |-> acc.called \cup r.called]

ArgsRaise(acc, r) ==
    [ok |-> FALSE, vals |-> <<>>, err |-> r.err,
     visited |-> acc.visited \cup r.visited, called |-> acc.called \cup r.called]

ArgsOk(acc) ==
    [ok |-> TRUE, vals |-> acc.vals, err |-> "", visited |-> acc.visited, called |-> acc.called]

RECURSIVE _eval_ast(_, _)
RECURSIVE EvalArgs(_, _, _)
RECURSIVE EvalArgsAfter(_, _, _, _)

\* [_eval_ast(a, env) for a in args]: the arguments in order, stopping at
\* the first that raises.  acc accumulates [vals, visited, called].
EvalArgs(args, env, acc) ==
    IF args = <<>> THEN ArgsOk(acc)
    ELSE EvalArgsAfter(args, env, acc, _eval_ast(Head(args), env))

\* The rest of the arguments once the first has been evaluated to r.
EvalArgsAfter(args, env, acc, r) ==
    IF ~r.ok THEN ArgsRaise(acc, r)
    ELSE EvalArgs(Tail(args), env, WithArg(acc, r))

\* The value of the argument list a under the function of the Call node.
CallValue(node, a) == MathCall(node.kids[1].id, a.vals)

\* The operator of a BinOp node applied to its evaluated operands.
BinOpValue(node, l, r) == ApplyBinOp(node.id, l.val, r.val)

_eval_ast(node, env) ==
    IF node.t \notin _ALLOWED_NODES
    THEN Raise("_UnsafeNodeError", {node}, {})
    ELSE CASE node.t = "Expression" -> Visit(node, _eval_ast(node.kids[1], env))
           [] node.t = "Constant" -> EvalConstant(node, ConstantValue(node))
           [] node.t = "Name" ->
                IF node.id \in DOMAIN env
                THEN Ok(env[node.id], {node}, {})
                ELSE Raise("_UnsafeNodeError", {node}, {})
           [] node.t = "UnaryOp" ->
                LET r == _eval_ast(node.kids[1], env)
                IN  EvalUnaryOp(node, r, ApplyUnaryOp(node.id, r.val))
           [] node.t = "BinOp" ->
                LET l == _eval_ast(node.kids[1], env)
                    r == _eval_ast(node.kids[2], env)
                IN  EvalBinOp(node, l, r, BinOpValue(node, l, r))
           [] node.t = "Call" /\ node.kids[1].t = "Name"
                              /\ node.kids[1].id \in _MATH_FUNCS_MAP ->
                LET a == EvalArgs(Tail(node.kids), env,
                                  [vals |-> <<>>, visited |-> {node}, called |-> {}])
                IN  EvalCall(node, a, CallValue(node, a))
           [] OTHER -> Raise("_UnsafeNodeError", {node}, {})

\* ast.parse(expr_src, mode="eval"): the tree of a text that parses.
ast_parse(expr_src) ==
    IF expr_src = SyntaxErr
    THEN [ok |-> FALSE, tree |-> SyntaxErr, err |-> "SyntaxError"]
    ELSE [ok |-> TRUE, tree |-> Expression(expr_src), err |-> ""]

\* _compile_rhs_expression: parses, and returns the closure _f (here its
\* parsed tree); nothing but the parse can fail.
_compile_rhs_expression(expr_src) == ast_parse(expr_src)

\* The closure _f(x, y, z, params) of a compiled expression.
EnvOf(x, y, z, params) ==
    [n \in {"x", "y", "z"} \cup DOMAIN params |->
        IF n \in DOMAIN params THEN params[n]
        ELSE IF n = "x" THEN x ELSE IF n = "y" THEN y ELSE z]

_f(parsed, x, y, z, params) == _eval_ast(parsed, EnvOf(x, y, z, params))

\* build_rhs_function: compiles the three axes in order; the first failure
\* is raised and nothing is built.
build_rhs_function(dx_src, dy_src, dz_src) ==
    LET fx == _compile_rhs_expression(dx_src)
        fy == _compile_rhs_expression(dy_src)
        fz == _compile_rhs_expression(dz_src)
    IN  IF ~fx.ok THEN [ok |-> FALSE, err |-> fx.err, fx |-> SyntaxErr, fy |-> SyntaxErr, fz |-> SyntaxErr]
        ELSE IF ~fy.ok THEN [ok |-> FALSE, err |-> fy.err, fx |-> SyntaxErr, fy |-> SyntaxErr, fz |-> SyntaxErr]
        ELSE IF ~fz.ok THEN [ok |-> FALSE, err |-> fz.err, fx |-> SyntaxErr, fy |-> SyntaxErr, fz |-> SyntaxErr]
        ELSE [ok |-> TRUE, err |-> "", fx |-> fx.tree, fy |-> fy.tree, fz |-> fz.tree]

\* No field has been built.
NoFunc == [ok |-> FALSE, err |-> "", fx |-> SyntaxErr, fy |-> SyntaxErr, fz |-> SyntaxErr]

\* A point (mathutils.Vector) is a triple of floats.
Vector(x, y, z) == <<x, y, z>>

\* The closure _rhs(p, params): the three axes evaluated in order on the
\* same environment; the first exception propagates.
RhsResult(rx, ry, rz) ==
    IF ~rx.ok THEN [ok |-> FALSE, err |-> rx.err, v |-> Vector(NaN, NaN, NaN)]
    ELSE IF ~ry.ok THEN [ok |-> FALSE, err |-> ry.err, v |-> Vector(NaN, NaN, NaN)]
    ELSE IF ~rz.ok THEN [ok |-> FALSE, err |-> rz.err, v |-> Vector(NaN, NaN, NaN)]
    ELSE [ok |-> TRUE, err |-> "", v |-> Vector(rx.val, ry.val, rz.val)]

_rhs(rhs_func, p, params) ==
    RhsResult(_f(rhs_func.fx, p[1], p[2], p[3], params),
              _f(rhs_func.fy, p[1], p[2], p[3], params),
              _f(rhs_func.fz, p[1], p[2], p[3], params))

RECURSIVE ast_walk(_)
RECURSIVE WalkAll(_)

\* The nodes of the trees of a sequence.
WalkAll(nodes) ==
    IF nodes = <<>> THEN {} ELSE ast_walk(Head(nodes)) \cup WalkAll(Tail(nodes))

\* ast.walk(node): the node and all its descendants, keyword values included.
ast_walk(node) == {node} \cup WalkAll(node.kids) \cup WalkAll(node.kw)

\* The identifiers of one axis; an axis that does not parse gives none.
NamesOf(expr) ==
    IF ~ast_parse(expr).ok THEN {}
    ELSE {n.id : n \in {m \in ast_walk(ast_parse(expr).tree) : m.t = "Name"}}

\* The names of the three axes, the names of functions among them.
DetectKeepingFunctions(dx, dy, dz) ==
    (NamesOf(dx) \cup NamesOf(dy) \cup NamesOf(dz)) \ _ALLOWED_VARS

\* detect_parameter_names: the sorted list of names, given as a set.
detect_parameter_names(dx, dy, dz) ==
    ((NamesOf(dx) \cup NamesOf(dy) \cup NamesOf(dz)) \ _ALLOWED_VARS) \ _ALLOWED_FUNCS

\* The identifiers of the expressions typed, in the order of sorted().
Alphabet == <<"a", "b", "c", "eval", "fabs", "real", "sin", "x", "y", "z">>

\* Line 220: sorted(list(names)).
sorted(names) == SelectSeq(Alphabet, LAMBDA n : n \in names)

\* ------------------------------------------------------------------------
\* 3. Core mathematics (numerical integration steppers)
\* ------------------------------------------------------------------------

VAdd(u, v) == Vector(FAdd(u[1], v[1]), FAdd(u[2], v[2]), FAdd(u[3], v[3]))

VSub(u, v) == Vector(FSub(u[1], v[1]), FSub(u[2], v[2]), FSub(u[3], v[3]))

\* v * f and f * v of a Vector and a float.
VScale(v, f) == Vector(FMul(v[1], f), FMul(v[2], f), FMul(v[3], f))

\* v / f for a non-zero f.
VDivF(v, f) == Vector(FDiv(v[1], f), FDiv(v[2], f), FDiv(v[3], f))

Zero3 == Vector(F(0), F(0), F(0))

\* An exception raised inside a stepper, as a stepper result.
StepRaise(kind) == [ok |-> FALSE, err |-> kind, v |-> Vector(NaN, NaN, NaN)]

StepOk(v) == [ok |-> TRUE, err |-> "", v |-> v]

\* step_euler: p + rhs_func(p, params) * dt.
EulerAdvance(p, dt, k) ==
    IF ~k.ok THEN StepRaise(k.err) ELSE StepOk(VAdd(p, VScale(k.v, dt)))

step_euler(rhs_func, p, params, dt) == EulerAdvance(p, dt, _rhs(rhs_func, p, params))

\* step_heun: predictor, then the average of the two slopes.  The stages
\* are evaluated in order, and the first that raises ends the step.
HeunCorrect(p, dt, k, k2) ==
    IF ~k2.ok THEN StepRaise(k2.err)
    ELSE StepOk(VAdd(p, VScale(VScale(VAdd(k.v, k2.v), Flt(1, 2)), dt)))

HeunPredict(rhs_func, p, params, dt, k) ==
    IF ~k.ok THEN StepRaise(k.err)
    ELSE HeunCorrect(p, dt, k, _rhs(rhs_func, VAdd(p, VScale(k.v, dt)), params))

step_heun(rhs_func, p, params, dt) ==
    HeunPredict(rhs_func, p, params, dt, _rhs(rhs_func, p, params))

\* step_rk4: the classical four stages with weights 1, 2, 2, 1 over 6.
RK4Sum(p, dt, k1, k2, k3, k4) ==
    IF ~k4.ok THEN StepRaise(k4.err)
    ELSE StepOk(VAdd(p, VScale(VAdd(VAdd(VAdd(k1.v, VScale(k2.v, F(2))),
                                         VScale(k3.v, F(2))), k4.v),
                               FDiv(dt, F(6)))))

RK4Stage4(rhs_func, p, params, dt, k1, k2, k3) ==
    IF ~k3.ok THEN StepRaise(k3.err)
    ELSE RK4Sum(p, dt, k1, k2, k3, _rhs(rhs_func, VAdd(p, VScale(k3.v, dt)), params))

RK4Stage3(rhs_func, p, params, dt, k1, k2) ==
    IF ~k2.ok THEN StepRaise(k2.err)
    ELSE RK4Stage4(rhs_func, p, params, dt, k1, k2,
                   _rhs(rhs_func, VAdd(p, VScale(k2.v, FMul(Flt(1, 2), dt))), params))

RK4Stage2(rhs_func, p, params, dt, k1) ==
    IF ~k1.ok THEN StepRaise(k1.err)
    ELSE RK4Stage3(rhs_func, p, params, dt, k1,
                   _rhs(rhs_func, VAdd(p, VScale(k1.v, FMul(Flt(1, 2), dt))), params))

step_rk4(rhs_func, p, params, dt) ==
    RK4Stage2(rhs_func, p, params, dt, _rhs(rhs_func, p, params))

\* The adaptive steppers.  Their first stage k1 = rhs_func(p, params) is
\* evaluated; the later stages evaluate the field away from p, and what
\* they give (the 5th-order point y5 and the error estimate) is an input,
\* stages = [y5, err5].  Errors and tolerances are carried as their fifth
\* roots (err5 = error ** 0.2), so that (tolerance / error) ** 0.2 is the
\* exact quotient tol5 / err5 and error <= tolerance is err5 <= tol5.

\* The fifth root of the error floor 1e-20.
ErrFloor5 == Flt(1, 10000)

safety_factor == Flt(9, 10)

\* Lines 102-111 and 136-145: the floor, the controller and the decision.
ErrorFloor(err5) == IF FLe(err5, ErrFloor5) THEN ErrFloor5 ELSE err5

OptimalDt(current_dt, tol5, error) ==
    FMul(FMul(safety_factor, current_dt), FDiv(tol5, error))

\* A decision that accepts every step.
DecideAccepting(p, y5, tol5, error, optimal_dt) ==
    [ok |-> TRUE, err |-> "", v |-> y5, next_dt |-> optimal_dt, accepted |-> TRUE]

Decide(p, y5, tol5, error, optimal_dt) ==
    IF FLe(error, tol5)
    THEN [ok |-> TRUE, err |-> "", v |-> y5, next_dt |-> optimal_dt, accepted |-> TRUE]
    ELSE [ok |-> TRUE, err |-> "", v |-> p, next_dt |-> optimal_dt, accepted |-> FALSE]

AdaptiveDecision(p, current_dt, tol5, stages) ==
    Decide(p, stages.y5, tol5, ErrorFloor(stages.err5),
           OptimalDt(current_dt, tol5, ErrorFloor(stages.err5)))

AdaptiveRaise(kind) ==
    [ok |-> FALSE, err |-> kind, v |-> Vector(NaN, NaN, NaN), next_dt |-> NaN, accepted |-> FALSE]

AfterFirstStage(p, current_dt, tol5, stages, k1) ==
    IF ~k1.ok THEN AdaptiveRaise(k1.err)
    ELSE AdaptiveDecision(p, current_dt, tol5, stages)

step_rkf45(rhs_func, p, params, current_dt, tol5, stages) ==
    AfterFirstStage(p, current_dt, tol5, stages, _rhs(rhs_func, p, params))

step_dp5(rhs_func, p, params, current_dt, tol5, stages) ==
    AfterFirstStage(p, current_dt, tol5, stages, _rhs(rhs_func, p, params))

\* A check that looks for NaN only.
HasNaN(q) == \E k \in 1..3 : isnan(q[k])

\* Lines 884 and 903: any(math.isnan(c) or math.isinf(c) for c in p).
HasNonFinite(q) == \E k \in 1..3 : isnan(q[k]) \/ isinf(q[k])

\* What the later stages give, as a kind and an error estimate: an advance
\* of p with an estimate of zero or with one that halves the step size
\* (1.8 tol5), a point with an infinite coordinate with an infinite
\* estimate, or one with a NaN coordinate with a NaN estimate.  RKF45's
\* estimate is the length of y4 - y5, which is not finite when y5 is not;
\* DP5's is formed from the stages alone, so it can also be zero for a y5
\* that is not finite.
Y5(kind, p) ==
    IF kind = "advance" THEN VAdd(p, Vector(F(1), F(0), F(0)))
    ELSE IF kind = "overflow" THEN Vector(p[1], PosInf, p[3])
    ELSE Vector(p[1], p[2], NaN)

StageSet(stepper, tol5) ==
    LET finite == [kind : {"advance"}, err5 : {F(0), FMul(Flt(9, 5), tol5)}]
        broken == {[kind |-> "overflow", err5 |-> PosInf], [kind |-> "invalid", err5 |-> NaN]}
        dp5only == [kind : {"overflow", "invalid"}, err5 : {F(0)}]
    IN  IF stepper = "step_dp5" THEN finite \cup broken \cup dp5only
        ELSE finite \cup broken

\* Python's min(a, b) and max(a, b) on floats: the first argument unless the
\* second compares smaller (larger), so a NaN second argument is dropped
\* and a NaN first argument is kept.
PyMin(a, b) == IF FLt(b, a) THEN b ELSE a

PyMax(a, b) == IF FLt(a, b) THEN b ELSE a

\* ------------------------------------------------------------------------
\* State
\* ------------------------------------------------------------------------

VARIABLES
    P,                       \* context.scene.attractor_props
    objects,                 \* bpy.data.objects: name -> the object's polyline
    _original_curve_cache,
    _simplify_source_cache,
    _working_curve_cache,
    _smooth_source_cache,
    _raw_points,
    _raw_dts,
    raw_export,              \* the vertices of the RawPoints mesh last exported
    pc,                      \* where ATTRACTOR_OT_build.execute stands
    p,                       \* execute's locals
    points,
    dt,
    pts_gen,
    burn_done,
    i,
    params,
    rhs_func,
    stepper,
    report,                  \* the last self.report of an operator
    calls,                   \* stepper calls made by the fixed-step loop
    produced,                \* the points the stepper advanced to, in order
    tried,                   \* what the later stages gave at each step size tried
    attempt,                 \* the last adaptive attempt and its outcome
    eval_out,                \* the outcome of the last single evaluation
    geom                     \* the last call of a geometry utility and its result

vars ==
    <<P, objects, _original_curve_cache, _simplify_source_cache,
      _working_curve_cache, _smooth_source_cache, _raw_points, _raw_dts,
      raw_export, pc, p, points, dt, pts_gen, burn_done, i, params, rhs_func,
      stepper, report, calls, produced, tried, attempt, eval_out, geom>>

\* A dict entry keyed by an object name: absent, or a list of points.
Absent == [has |-> FALSE, pts |-> <<>>]

Present(pts) == [has |-> TRUE, pts |-> pts]

\* The names objects can have.
ObjNames == {"Attractor", "Curve"}

EmptyDict == [n \in ObjNames |-> Absent]

\* cache.pop(name, None)
Pop(cache, name) == [cache EXCEPT ![name] = Absent]

NoParams == [n \in {} |-> NaN]

\* A report: the operator, the level, and for an error the class of the
\* exception, its message and the step index the message carries (-1: none).
Report(op, level, exc, msg, step) ==
    [op |-> op, level |-> level, exc |-> exc, msg |-> msg, step |-> step]

NoReport == Report("", "", "", "", 0 - 1)

\* The last adaptive attempt: the parity of the loop iterations and whether
\* the attempt was accepted.
NoAttempt == [n |-> 0, accepted |-> FALSE]

NoEval == Raise("", {}, {})

\* No geometry utility has been called.
NoCall == [fn |-> ""]

\* No geometry utility has been called yet; pts is the list to call one on.
Pending(pts) == [fn |-> "", pts |-> pts]

\* ------------------------------------------------------------------------
\* 5. The attractor library: the entries the model draws from
\* ------------------------------------------------------------------------

\* dx = a, a = 1: a constant field.
EntryConst ==
    [rhs |-> [dx |-> Name("a"), dy |-> Num(0), dz |-> Num(0)],
     params |-> [n \in {"a"} |-> F(1)],
     initial |-> Vector(F(0), F(0), F(0))]

\* The harmonic oscillator (y, -x, 0).
EntryRot ==
    [rhs |-> [dx |-> Name("y"), dy |-> UnaryOp("USub", Name("x")), dz |-> Num(0)],
     params |-> NoParams,
     initial |-> Vector(F(1), F(0), F(0))]

\* dx = 1/x started at x = 0: a singularity at the starting state.
EntrySing ==
    [rhs |-> [dx |-> BinOp(Num(1), "Div", Name("x")), dy |-> Num(0), dz |-> Num(0)],
     params |-> NoParams,
     initial |-> Vector(F(0), F(1), F(0))]

\* dz = z*z: a field that leaves the float range.
EntryQuad ==
    [rhs |-> [dx |-> Num(0), dy |-> Num(0), dz |-> BinOp(Name("z"), "Mult", Name("z"))],
     params |-> NoParams,
     initial |-> Vector(F(0), F(0), F(2))]

Library ==
    [n \in {"Const", "Rot", "Sing", "Quad"} |->
        CASE n = "Const" -> EntryConst
          [] n = "Rot" -> EntryRot
          [] n = "Sing" -> EntrySing
          [] n = "Quad" -> EntryQuad]

\* ------------------------------------------------------------------------
\* 7. Property update callbacks
\* ------------------------------------------------------------------------

\* A callback that leaves the panel as it is.
KeepPostProcessing(props) == props

reset_post_processing_state_update(props) ==
    IF props.show_post_processing
    THEN [props EXCEPT !.show_post_processing = FALSE, !.active_curve_name = ""]
    ELSE props

\* A method callback that sets the approach and leaves the procedures.
MethodUpdateKeepingProcedure(props) ==
    reset_post_processing_state_update(
        [props EXCEPT !.integration_approach =
            IF props.integration_method \in {"RKF45", "DP5"} THEN "ADAPTIVE" ELSE "FIXED"])

\* An equation callback that keeps the validation state.
EquationChangeKeepingState(props) == reset_post_processing_state_update(props)

integration_method_update(props) ==
    LET method == props.integration_method
        q == IF method \in {"EULER", "HEUN", "RK4"}
             THEN [props EXCEPT !.integration_approach = "FIXED", !.method = method]
             ELSE IF method \in {"RKF45", "DP5"}
             THEN [props EXCEPT !.integration_approach = "ADAPTIVE", !.adaptive_method = method]
             ELSE props
    IN  reset_post_processing_state_update(q)

on_custom_equation_change(props) ==
    reset_post_processing_state_update([props EXCEPT !.custom_validate_state = "NONE"])

\* apply_snapshot_to_props for an entry without "defaults": the equations
\* (each assignment running on_custom_equation_change), the parameters, the
\* initial point, and the procedure, which falls back to "RK4".
apply_snapshot_to_props(props, entry) ==
    LET q1 == on_custom_equation_change(
                  [props EXCEPT !.custom_dx = entry.rhs.dx,
                                !.custom_dy = entry.rhs.dy,
                                !.custom_dz = entry.rhs.dz])
        q2 == [q1 EXCEPT !.custom_params = entry.params,
                         !.x0 = entry.initial[1],
                         !.y0 = entry.initial[2],
                         !.z0 = entry.initial[3]]
    IN  integration_method_update([q2 EXCEPT !.integration_method = "RK4"])

\* validate_and_update_params, as the new props.
validate_and_update_params(props) ==
    LET detected == detect_parameter_names(props.custom_dx, props.custom_dy, props.custom_dz)
        existing == props.custom_params
        newparams == [n \in detected |-> IF n \in DOMAIN existing THEN existing[n] ELSE F(1)]
        built == build_rhs_function(props.custom_dx, props.custom_dy, props.custom_dz)
    IN  IF built.ok
        THEN [props EXCEPT !.custom_params = newparams,
                           !.custom_validate_state = "OK",
                           !.custom_validate_msg = "Validated! Enter parameter values:"]
        ELSE [props EXCEPT !.custom_params = newparams,
                           !.custom_validate_state = "ERROR",
                           !.custom_validate_msg = built.err]

update_attractor_defaults(props) ==
    apply_snapshot_to_props(reset_post_processing_state_update(props),
                            Library[props.attractor_type])

\* _on_custom_select for a name of the library.
_on_custom_select(props) ==
    validate_and_update_params(
        apply_snapshot_to_props(reset_post_processing_state_update(props),
                                Library[props.custom_selected]))

\* ------------------------------------------------------------------------
\* 6. Blender data and curve utilities
\* ------------------------------------------------------------------------

\* make_or_get_curve: an object of that name is reused with its splines
\* cleared, otherwise a new object with an empty curve is created.
make_or_get_curve(objs, name) == [objs EXCEPT ![name] = Present(<<>>)]

\* write_polyline on the curve of the object called name.
write_polyline(objs, name, pts) == [objs EXCEPT ![name] = Present(pts)]

\* _visible_curve_as_points of a poly curve: None (here <<>>) without splines.
_visible_curve_as_points(objs, name) == objs[name].pts

\* cache.get(name), with None and the empty list both given as <<>>.
Get(cache, name) == IF cache[name].has THEN cache[name].pts ELSE <<>>

\* self.active_curve or context.scene.objects.get(self.active_curve_name):
\* the name of the object, "" for None.
ActiveObject(W) ==
    IF W.P.active_curve # "" THEN W.P.active_curve
    ELSE IF W.P.active_curve_name \in ObjNames /\ W.objects[W.P.active_curve_name].has
         THEN W.P.active_curve_name
         ELSE ""

Min(a, b) == IF a < b THEN a ELSE b

Max(a, b) == IF a > b THEN a ELSE b

\* Lines 688-695: the indices start_i and end_i of the trim window on a
\* source of N points, trim_start and trim_end being whole percentages.
TrimWindow(N, trim_start, trim_end) ==
    LET start_pc == Max(0, Min(100, trim_start))
        end_pc == Max(start_pc, Min(100, trim_end))
        start_i == (start_pc * (N - 1)) \div 100
        end_0 == (end_pc * (N - 1)) \div 100
        end_i == IF start_i >= end_0
                 THEN (IF start_i < N - 1 THEN Min(N - 1, start_i + 1) ELSE start_i)
                 ELSE end_0
    IN  [start_i |-> start_i, end_i |-> end_i]

\* Line 701: src[start_i : end_i + 1].
TrimSlice(src, trim_start, trim_end) ==
    SubSeq(src, TrimWindow(Len(src), trim_start, trim_end).start_i + 1,
           TrimWindow(Len(src), trim_start, trim_end).end_i + 1)

\* update_interactive_trim on the world W = [P, objects, orig, simp, work].
update_interactive_trim(W) ==
    LET name == ActiveObject(W)
        cached == IF Get(W.work, name) # <<>> THEN Get(W.work, name) ELSE Get(W.orig, name)
        src == IF cached # <<>> THEN cached ELSE _visible_curve_as_points(W.objects, name)
        W1 == IF cached # <<>> THEN W ELSE [W EXCEPT !.orig[name] = Present(src)]
    IN  IF name = "" THEN W
        ELSE IF src = <<>> THEN W
        ELSE IF Len(src) < 2 THEN W1
        ELSE [W1 EXCEPT !.objects = write_polyline(W1.objects, name,
                                                   TrimSlice(src, W.P.trim_start, W.P.trim_end))]

RECURSIVE SumFrom(_, _, _)
\* sum(points, Vector()) from index k on, acc being the sum so far.
SumFrom(pts, k, acc) ==
    IF k > Len(pts) THEN acc ELSE SumFrom(pts, k + 1, VAdd(acc, pts[k]))

\* Lines 918-919: the centroid, and the points with it subtracted.
Centroid(pts) == VDivF(SumFrom(pts, 1, Zero3), F(Len(pts)))

Centered(pts) == [k \in 1..Len(pts) |-> VSub(pts[k], Centroid(pts))]

\* ------------------------------------------------------------------------
\* Geometry utilities: resampling, simplification, Bezier sampling
\* ------------------------------------------------------------------------

\* The square root of a non-negative integer that is a perfect square.
ISqrt(n) == CHOOSE r \in 0..n : r * r = n

\* math.sqrt on the floats whose root is rational (the lengths the model
\* computes are those of segments of rational length).
Sqrt(c) ==
    IF isnan(c) \/ c = NegInf THEN NaN
    ELSE IF c = PosInf THEN PosInf
    ELSE Flt(ISqrt(c[1]), ISqrt(c[2]))

\* Vector.dot, Vector.length_squared, Vector.length.
Dot(u, v) == FAdd(FAdd(FMul(u[1], v[1]), FMul(u[2], v[2])), FMul(u[3], v[3]))

LengthSquared(v) == Dot(v, v)

Length(v) == Sqrt(LengthSquared(v))

\* Vector.lerp: (1 - fac) * a + fac * b.
Lerp(a, b, fac) == VAdd(VScale(a, FSub(F(1), fac)), VScale(b, fac))

\* Line 435: the total length under which a polyline is not resampled
\* (1e-12 in the source; the lengths of the model are 0 or above 1/1000).
TinyLength == Flt(1, 1000000)

\* sum(segL[:k]): the lengths added from the left.
RECURSIVE SumTo(_, _)
SumTo(segL, k) == IF k = 0 THEN F(0) ELSE FAdd(SumTo(segL, k - 1), segL[k])

\* Line 433: the lengths of the segments.
SegmentLengths(pts) ==
    [k \in 1..(Len(pts) - 1) |-> Length(VSub(pts[k + 1], pts[k]))]

\* Line 438: the normalised cumulative lengths, cum[1] = 0.0.
Cumulative(segL, total) ==
    [k \in 1..(Len(segL) + 1) |-> IF k = 1 THEN F(0) ELSE FDiv(SumTo(segL, k - 1), total)]

\* A search that leaves j where it is.
BracketStay(cum, n, t, j) == j

\* Lines 443-444: j (counted from 0) advanced while cum[j+1] < t.
RECURSIVE Bracket(_, _, _, _)
Bracket(cum, n, t, j) ==
    IF j < n - 2 /\ FLt(cum[j + 2], t) THEN Bracket(cum, n, t, j + 1) ELSE j

\* A position that is always half way.
FractionMidway(t, t0, t1) == Flt(1, 2)

\* Line 446: the position of t between cum[j] and cum[j+1].
Fraction(t, t0, t1) ==
    IF FLe(t1, t0) THEN F(0) ELSE FDiv(FSub(t, t0), FSub(t1, t0))

\* Lines 445-447: the point at t on the segment j (counted from 0).
SamplePoint(pts, cum, t, j) ==
    Lerp(pts[j + 1], pts[j + 2], Fraction(t, cum[j + 1], cum[j + 2]))

\* Lines 441-447: the loop over k, j being kept from one k to the next.
RECURSIVE ResampleLoop(_, _, _, _, _, _)
RECURSIVE ResampleAt(_, _, _, _, _, _)
ResampleAt(pts, m, cum, k, j, out) ==
    ResampleLoop(pts, m, cum, k + 1, j,
                 Append(out, SamplePoint(pts, cum, FDiv(F(k), F(m - 1)), j)))

ResampleLoop(pts, m, cum, k, j, out) ==
    IF k = m THEN out
    ELSE ResampleAt(pts, m, cum, k,
                    Bracket(cum, Len(pts), FDiv(F(k), F(m - 1)), j), out)

\* The result of a utility: the list it returns (None as <<>> with none
\* TRUE), whether that list is a new object, and the argument list as the
\* call leaves it.
Returned(out, fresh, arg) ==
    [out |-> out, none |-> FALSE, fresh |-> fresh, arg |-> arg, err |-> ""]

ReturnedNone(arg) == [out |-> <<>>, none |-> TRUE, fresh |-> FALSE, arg |-> arg, err |-> ""]

\* A call that ended in an exception of class kind.
Raised(kind, arg) == [out |-> <<>>, none |-> FALSE, fresh |-> FALSE, arg |-> arg, err |-> kind]

\* Lines 433-448 for a list that passed the test of line 430.
ResampleByLength(pts, m, segL, total) ==
    IF FLe(total, TinyLength) THEN Returned(pts, TRUE, pts)
    ELSE Returned(ResampleLoop(pts, m, Cumulative(segL, total), 0, 0, <<>>), TRUE, pts)

\* A test that lets a list be resampled to its own length.
DegenerateLonger(n, m) == n < 2 \/ m <= 1 \/ m > n

\* Line 430: the lists and counts that are not resampled.
Degenerate(n, m) == n < 2 \/ m <= 1 \/ m >= n

\* _resample_even(points, m).
_resample_even(pts, m) ==
    IF Degenerate(Len(pts), m)
    THEN Returned(pts, TRUE, pts)
    ELSE ResampleByLength(pts, m, SegmentLengths(pts),
                          SumTo(SegmentLengths(pts), Len(pts) - 1))

\* Lines 540-541: the point of the segment from p1 along line_vec that is
\* nearest to q.
Projection(q, p1, line_vec, line_len_sq) ==
    VAdd(p1, VScale(line_vec,
                    PyMax(F(0), PyMin(F(1), FDiv(Dot(line_vec, VSub(q, p1)), line_len_sq)))))

\* Lines 537-542: the distance d of q to the segment from p1 to p2, as its
\* square (the comparisons of lines 544 and 547 are made on the squares).
Distance2(q, p1, p2) ==
    IF LengthSquared(VSub(p2, p1)) = F(0)
    THEN LengthSquared(VSub(q, p1))
    ELSE LengthSquared(VSub(q, Projection(q, p1, VSub(p2, p1), LengthSquared(VSub(p2, p1)))))

\* Line 544: if d > dmax.
Farther(dmax2, d2) == FLt(dmax2, d2)

\* Lines 535-545: the interior point farthest from the segment between the
\* ends, the first of them if several are; index counts from 1, and is 1
\* while no point is farther than 0.
RECURSIVE Farthest(_, _, _, _)
RECURSIVE FarthestAt(_, _, _, _, _)
FarthestAt(pts, k, index, dmax2, d2) ==
    IF Farther(dmax2, d2) THEN Farthest(pts, k + 1, k, d2)
    ELSE Farthest(pts, k + 1, index, dmax2)

Farthest(pts, k, index, dmax2) ==
    IF k > Len(pts) - 1 THEN [index |-> index, dmax2 |-> dmax2]
    ELSE FarthestAt(pts, k, index, dmax2, Distance2(pts[k], pts[1], pts[Len(pts)]))

\* rec1, whole.
WholeList(l) == l

\* rec1[:-1].
Front(l) == SubSeq(l, 1, Len(l) - 1)

\* Line 547: dmax > epsilon, dmax being the root of dmax2 and so not
\* negative.
Exceeds(dmax2, epsilon) ==
    IF FLt(epsilon, F(0)) THEN TRUE ELSE FLt(FMul(epsilon, epsilon), dmax2)

\* The two results joined the wrong way round.
JoinedBackwards(pts, rec1, rec2) == Returned(rec2.out \o rec1.out, TRUE, pts)

\* Line 550: rec1[:-1] + rec2, unless one of the two calls raised.
Joined(pts, rec1, rec2) ==
    IF rec1.err # "" THEN Raised(rec1.err, pts)
    ELSE IF rec2.err # "" THEN Raised(rec2.err, pts)
    ELSE Returned(Front(rec1.out) \o rec2.out, TRUE, pts)

\* ramer_douglas_peucker(points, epsilon).
RECURSIVE ramer_douglas_peucker(_, _)
RECURSIVE SimplifyAround(_, _, _)
\* Lines 547-552.  With index left at the first point, points[index:] is
\* the whole list again: the call of line 549 repeats its caller without
\* end, until the interpreter raises RecursionError.
SimplifyAround(pts, epsilon, far) ==
    IF Exceeds(far.dmax2, epsilon)
    THEN IF far.index = 1 THEN Raised("RecursionError", pts)
         ELSE Joined(pts, ramer_douglas_peucker(SubSeq(pts, 1, far.index), epsilon),
                     ramer_douglas_peucker(SubSeq(pts, far.index, Len(pts)), epsilon))
    ELSE Returned(<<pts[1], pts[Len(pts)]>>, TRUE, pts)

ramer_douglas_peucker(pts, epsilon) ==
    IF Len(pts) < 3 THEN Returned(pts, FALSE, pts)
    ELSE SimplifyAround(pts, epsilon, Farthest(pts, 2, 1, F(0)))

\* dense_cap of line 475, scaled down from 12000: the least number of
\* steps per segment (4, line 488) is reached from 2 segments on.
DenseCap == 8

\* A curve without a spline, and a curve whose first spline is sp.
NoSpline == [splines |-> <<>>]

CurveOf(sp) == [splines |-> <<sp>>]

\* Lines 490-496: cubic(p0, h0, h1, p1, t), from a, b and c on.
CubicFrom(a, b, c, t) == Lerp(Lerp(a, b, t), Lerp(b, c, t), t)

cubic(p0, h0, h1, p1, t) == CubicFrom(Lerp(p0, h0, t), Lerp(h0, h1, t), Lerp(h1, p1, t), t)

\* Lines 500-506: the point of step s of segment seg (seg counts from 0).
DensePoint(bps, seg, s, steps_per_seg) ==
    cubic(bps[seg + 1].co, bps[seg + 1].handle_right,
          bps[((seg + 1) % Len(bps)) + 1].handle_left, bps[((seg + 1) % Len(bps)) + 1].co,
          Flt(s, steps_per_seg))

\* Lines 498-506: dense_pts; step 0 is kept for the first segment only.
DensePoints(bps, segs, steps_per_seg) ==
    [k \in 1..(segs * steps_per_seg + 1) |->
        IF k = 1 THEN DensePoint(bps, 0, 0, steps_per_seg)
        ELSE DensePoint(bps, (k - 2) \div steps_per_seg, ((k - 2) % steps_per_seg) + 1,
                        steps_per_seg)]

\* Line 508.
ResampleDense(dense_pts, target_count) ==
    IF dense_pts = <<>> THEN ReturnedNone(<<>>) ELSE _resample_even(dense_pts, target_count)

\* Lines 485-488.
SampleSegments(bps, segs, target_count) ==
    IF segs <= 0 THEN ReturnedNone(<<>>)
    ELSE ResampleDense(DensePoints(bps, segs, Max(4, DenseCap \div segs)), target_count)

\* Lines 480-485.
SampleSpline(sp, target_count) ==
    IF Len(sp.bezier_points) < 2 \/ target_count < 2 THEN ReturnedNone(<<>>)
    ELSE SampleSegments(sp.bezier_points,
                        Len(sp.bezier_points) - (1 - (IF sp.use_cyclic_u THEN 1 ELSE 0)),
                        target_count)

\* _sample_bezier_uniform(obj, target_count), cu being obj.data.
_sample_bezier_uniform(cu, target_count) ==
    IF cu.splines = <<>> THEN ReturnedNone(<<>>)
    ELSE IF cu.splines[1].type # "BEZIER" THEN ReturnedNone(<<>>)
    ELSE SampleSpline(cu.splines[1], target_count)

\* The most points handed to the simplification (150000 at line 1147,
\* scaled down) and to the Bezier fit (MAX_CONTROL_POINTS = 20000 at line
\* 1159, scaled down).
SourceCap == 3

MAX_CONTROL_POINTS == 2

RECURSIVE MinCorner(_, _)
\* Line 1150: Vector(map(min, zip(*points))), over the points from the
\* k-th on.
MinCorner(pts, k) ==
    IF k = Len(pts) THEN pts[k]
    ELSE Vector(PyMin(pts[k][1], MinCorner(pts, k + 1)[1]),
                PyMin(pts[k][2], MinCorner(pts, k + 1)[2]),
                PyMin(pts[k][3], MinCorner(pts, k + 1)[3]))

RECURSIVE MaxCorner(_, _)
\* Line 1151: the same with max.
MaxCorner(pts, k) ==
    IF k = Len(pts) THEN pts[k]
    ELSE Vector(PyMax(pts[k][1], MaxCorner(pts, k + 1)[1]),
                PyMax(pts[k][2], MaxCorner(pts, k + 1)[2]),
                PyMax(pts[k][3], MaxCorner(pts, k + 1)[3]))

\* Lines 1150-1152, as the square of diagonal_length.
Diagonal2(pts) == LengthSquared(VSub(MaxCorner(pts, 1), MinCorner(pts, 1)))

\* Lines 1154-1155, the 0.0001 of the highest fidelity being 0.01 here.
Epsilon(diagonal_length, smooth_fidelity) ==
    FMul(diagonal_length,
         FAdd(Flt(1, 100),
              FMul(FMul(FSub(F(1), smooth_fidelity), FSub(F(1), smooth_fidelity)),
                   Flt(5, 100))))

\* Lines 1147 and 1160: the test of a cap.
OverCap(count, cap) == count > cap

\* Lines 1147-1148 and 1160-1161: a list longer than cap is resampled to it.
Capped(pts, cap) == IF OverCap(Len(pts), cap) THEN _resample_even(pts, cap).out ELSE pts

\* What smooth_apply did: whether it was cancelled, and the lists it gave
\* to ramer_douglas_peucker and to _build_bezier_on_object.
Smoothed(cancelled, simplified, fitted) ==
    [cancelled |-> cancelled, simplified |-> simplified, fitted |-> fitted, err |-> ""]

\* Lines 1159-1168, control being what ramer_douglas_peucker returned.
FitControl(src_points, control) ==
    IF control.err # ""
    THEN [cancelled |-> TRUE, simplified |-> <<src_points>>, fitted |-> <<>>, err |-> control.err]
    ELSE IF Len(Capped(control.out, MAX_CONTROL_POINTS)) < 2
         THEN Smoothed(TRUE, <<src_points>>, <<>>)
    ELSE Smoothed(FALSE, <<src_points>>, <<Capped(control.out, MAX_CONTROL_POINTS)>>)

\* Lines 1147-1157, src_points being the visible points of the curve.
SimplifyCapped(src_points, smooth_fidelity) ==
    FitControl(src_points,
               ramer_douglas_peucker(src_points,
                                     Epsilon(Sqrt(Diagonal2(src_points)), smooth_fidelity)))

\* ATTRACTOR_OT_smooth_apply.execute from line 1142 on, for the visible
\* points src_points of the active curve.
smooth_apply(src_points, smooth_fidelity) ==
    IF Len(src_points) < 2 THEN Smoothed(TRUE, <<>>, <<>>)
    ELSE SimplifyCapped(Capped(src_points, SourceCap), smooth_fidelity)

\* update_simplify_live on the world W: the simplify source (cached, or the
\* visible polyline, which is then cached) is resampled to the target
\* count, written, kept as the working copy, and trimmed.
update_simplify_live(W) ==
    LET name == ActiveObject(W)
        cached == Get(W.simp, name)
        src == IF cached # <<>> THEN cached ELSE _visible_curve_as_points(W.objects, name)
        W1 == IF cached # <<>> THEN W ELSE [W EXCEPT !.simp[name] = Present(src)]
        baseline_count == Len(src)
        target_count == Max(2, Min(W.P.simplify_target, baseline_count))
        new_pts == IF target_count = baseline_count THEN src
                   ELSE _resample_even(src, target_count).out
    IN  IF W.P.simplify_suspend THEN W
        ELSE IF name = "" THEN W
        ELSE IF src = <<>> THEN W
        ELSE IF baseline_count < 2 THEN W1
        ELSE update_interactive_trim(
                 [W1 EXCEPT !.objects = write_polyline(W1.objects, name, new_pts),
                            !.work[name] = Present(new_pts)])

\* Python's round(n / d) of a non-negative quotient: to the nearest
\* integer, a tie going to the even one.
RoundHalfEven(n, d) ==
    LET q == n \div d
        r == n % d
    IN  IF 2 * r < d THEN q
        ELSE IF 2 * r > d THEN q + 1
        ELSE IF q % 2 = 0 THEN q ELSE q + 1

\* update_simplify_percent, simplify_percent being a whole percentage: the
\* target is that share of the baseline count, and assigning it runs
\* update_simplify_live.
update_simplify_percent(W) ==
    LET name == ActiveObject(W)
        src == _visible_curve_as_points(W.objects, name)
        W1 == IF W.simp[name].has THEN W ELSE [W EXCEPT !.simp[name] = Present(src)]
        baseline == Len(W1.simp[name].pts)
        target == Max(2, RoundHalfEven(baseline * W.P.simplify_percent, 100))
    IN  IF W.P.simplify_suspend THEN W
        ELSE IF name = "" THEN W
        ELSE IF ~W.simp[name].has /\ src = <<>> THEN W
        ELSE IF W1.P.simplify_target # target
             THEN update_simplify_live([W1 EXCEPT !.P.simplify_target = target])
             ELSE W1

\* ------------------------------------------------------------------------
\* 8. The properties and the initial state
\* ------------------------------------------------------------------------

\* The equations typed into the custom fields: b*x (with a parameter that
\* validation declares), x.real (an attribute access) and a text that does
\* not parse.
EqInputs ==
    {BinOp(Name("b"), "Mult", Name("x")), Attribute(Name("x"), "real"), SyntaxErr}

Methods == {"EULER", "HEUN", "RK4", "RKF45", "DP5"}

\* The numeric settings of a build: the step size, the adaptive window
\* min_dt..max_dt and the tolerance (as its fifth root).
StepSize == F(6)

MinStep == F(3)

MaxStep == F(6)

Tol5 == Flt(1, 100)

\* The properties as registered (their defaults), with the model's numeric
\* settings and with steps, burn_in and scale as given.
DefaultProps(steps, burn_in, scale) ==
    [mode |-> "DEFAULT", attractor_type |-> "Const", custom_selected |-> "Const",
     custom_dx |-> Name("y"), custom_dy |-> UnaryOp("USub", Name("x")), custom_dz |-> Num(0),
     custom_params |-> NoParams,
     custom_validate_state |-> "NONE", custom_validate_msg |-> "",
     show_post_processing |-> FALSE, active_curve_name |-> "", active_curve |-> "",
     simplify_suspend |-> FALSE,
     x0 |-> F(0), y0 |-> F(0), z0 |-> F(0),
     integration_method |-> "RK4", integration_approach |-> "FIXED",
     method |-> "RK4", adaptive_method |-> "DP5",
     dt |-> StepSize, tolerance |-> Tol5, min_dt |-> MinStep, max_dt |-> MaxStep,
     steps |-> steps, burn_in |-> burn_in, scale |-> scale,
     curve_name |-> "Attractor",
     trim_start |-> 0, trim_end |-> 100, simplify_percent |-> 100, simplify_target |-> 1000]

\* The properties once a mode and a library entry have been chosen.
ChosenProps(mode, name, steps, burn_in, scale) ==
    LET d == DefaultProps(steps, burn_in, scale)
    IN  IF mode = "DEFAULT"
        THEN update_attractor_defaults([d EXCEPT !.attractor_type = name, !.custom_selected = name])
        ELSE _on_custom_select([d EXCEPT !.mode = "CUSTOM", !.attractor_type = name,
                                         !.custom_selected = name])

\* Everything but the properties, as it is when the add-on has been loaded.
InitRest ==
    /\ objects = [n \in ObjNames |-> Absent]
    /\ _original_curve_cache = EmptyDict
    /\ _simplify_source_cache = EmptyDict
    /\ _working_curve_cache = EmptyDict
    /\ _smooth_source_cache = EmptyDict
    /\ _raw_points = <<>>
    /\ _raw_dts = <<>>
    /\ raw_export = <<>>
    /\ pc = "idle"
    /\ p = Zero3
    /\ points = <<>>
    /\ dt = F(0)
    /\ pts_gen = 0
    /\ burn_done = 0
    /\ i = 0
    /\ params = NoParams
    /\ rhs_func = NoFunc
    /\ stepper = ""
    /\ report = NoReport
    /\ calls = 0
    /\ produced = <<>>
    /\ tried = {}
    /\ attempt = NoAttempt
    /\ eval_out = NoEval

\* The custom panel after the entry Rot has been picked: left as it is,
\* or with x.real typed into the dx field and validated, or with b*x typed
\* and not validated.
CustomProps(steps, burn_in, scale) ==
    LET d == ChosenProps("CUSTOM", "Rot", steps, burn_in, scale)
        typed(e) == on_custom_equation_change([d EXCEPT !.custom_dx = e])
    IN  {d,
         validate_and_update_params(typed(Attribute(Name("x"), "real"))),
         typed(BinOp(Name("b"), "Mult", Name("x")))}

\* The values of the scale property: the default, and one that takes a
\* recorded coordinate beyond the float range.
Scales == {F(1), F(20)}

\* The settings a build can start from.
Settings ==
    UNION {
        {ChosenProps("DEFAULT", name, steps, burn_in, scale) : name \in DOMAIN Library}
            \cup CustomProps(steps, burn_in, scale) :
        steps \in 2..MaxSteps, burn_in \in 0..MaxBurnIn, scale \in Scales}

\* The adaptive windows <<min_dt, max_dt>> of a build: the one of the
\* settings, and the two bounds exchanged (each property has a lower limit
\* of its own, lines 758-759, and nothing relates one to the other).
Windows == {<<MinStep, MaxStep>>, <<MaxStep, MinStep>>}

Init ==
    /\ \E d \in Settings, m \in Methods, w \in Windows :
            P = integration_method_update(
                    reset_post_processing_state_update(
                        [d EXCEPT !.integration_method = m, !.min_dt = w[1], !.max_dt = w[2]]))
    /\ InitRest
    /\ geom = NoCall

\* ------------------------------------------------------------------------
\* 9. Operators: ATTRACTOR_OT_build.execute
\* ------------------------------------------------------------------------

InstabilityAdaptive == "Numerical instability detected."

InstabilityFixed == "Numerical instability @ step {i}."

NotValidated == "Custom equations are not validated."

\* Line 939: the except clause reports the exception and cancels.
Failed(exc, msg, step) == Report("build", "ERROR", exc, msg, step)

\* A fixed loop that discards one step too many.
AfterBurnInLate(k, props) == k > props.burn_in

\* Line 905: a fixed step is recorded once the burn-in steps are over.
AfterBurnIn(k, props) == k >= props.burn_in

\* An adaptive loop that discards one accepted step too many.
BurnInDoneLate(done, props) == done > props.burn_in

\* Line 886: an accepted adaptive step is recorded once burn_in accepted
\* steps have been discarded.
BurnInDone(done, props) == done >= props.burn_in

\* Lines 901 and 879: the loop conditions.
FixedLoopRuns(k, props) == k < props.steps + props.burn_in

AdaptiveLoopRuns(gen, props) == gen < props.steps

\* Lines 835-878 and 897-900: the output object is created or cleared, the
\* post-processing panel is hidden, the field is built (from the library
\* entry in DEFAULT mode, from the validated custom equations otherwise),
\* the raw lists are seeded with the starting point and the loop is set up.
BuildBegin ==
    /\ pc = "idle"
    /\ LET P1 == [P EXCEPT !.show_post_processing = FALSE, !.active_curve_name = ""]
           entry == Library[P1.attractor_type]
           P2 == IF P1.mode = "DEFAULT" /\ DOMAIN P1.custom_params = {}
                 THEN [P1 EXCEPT !.custom_params = entry.params]
                 ELSE P1
           unvalidated == P2.mode # "DEFAULT" /\ P2.custom_validate_state # "OK"
           built == IF P2.mode = "DEFAULT"
                    THEN build_rhs_function(entry.rhs.dx, entry.rhs.dy, entry.rhs.dz)
                    ELSE build_rhs_function(P2.custom_dx, P2.custom_dy, P2.custom_dz)
           start == Vector(P2.x0, P2.y0, P2.z0)
           adaptive == P2.integration_approach = "ADAPTIVE"
       IN  /\ objects' = make_or_get_curve(objects, "Attractor")
           /\ P' = P2
           /\ calls' = 0
           /\ produced' = <<>>
           /\ attempt' = NoAttempt
           /\ IF unvalidated \/ ~built.ok
              THEN /\ report' = IF unvalidated THEN Failed("ValueError", NotValidated, 0 - 1)
                                ELSE Failed(built.err, "", 0 - 1)
                   /\ pc' = "idle"
                   /\ UNCHANGED <<p, points, _raw_points, _raw_dts, dt, pts_gen, burn_done,
                                  i, params, rhs_func, stepper>>
              ELSE /\ report' = NoReport
                   /\ params' = P2.custom_params
                   /\ rhs_func' = built
                   /\ p' = start
                   /\ points' = <<>>
                   /\ _raw_points' = <<start>>
                   /\ _raw_dts' = <<F(0)>>
                   /\ pc' = IF adaptive THEN "adaptive" ELSE "fixed"
                   /\ dt' = IF adaptive THEN P2.dt ELSE dt
                   /\ pts_gen' = IF adaptive THEN 0 ELSE pts_gen
                   /\ burn_done' = IF adaptive THEN 0 ELSE burn_done
                   /\ i' = IF adaptive THEN i ELSE 0
                   /\ stepper' = IF adaptive
                                 THEN (IF P2.adaptive_method = "DP5" THEN "step_dp5" ELSE "step_rkf45")
                                 ELSE (IF P2.method = "RK4" THEN "step_rk4"
                                       ELSE IF P2.method = "HEUN" THEN "step_heun"
                                       ELSE "step_euler")
    /\ UNCHANGED <<_original_curve_cache, _simplify_source_cache, _working_curve_cache,
                   _smooth_source_cache, raw_export, tried, eval_out, geom>>

\* Line 898: the stepper of the fixed-step loop applied to the state.
FixedStepper(name, f, q, pr, h) ==
    IF name = "step_rk4" THEN step_rk4(f, q, pr, h)
    ELSE IF name = "step_heun" THEN step_heun(f, q, pr, h)
    ELSE step_euler(f, q, pr, h)

\* Lines 902-908: what an iteration does with the stepper's result r.
FixedAdvance(r) ==
    LET unstable == r.ok /\ HasNonFinite(r.v)
        rec == r.ok /\ ~HasNonFinite(r.v) /\ AfterBurnIn(i, P)
    IN  /\ calls' = calls + 1
        /\ p' = IF r.ok THEN r.v ELSE p
        /\ produced' = IF r.ok THEN Append(produced, r.v) ELSE produced
        /\ _raw_points' = IF rec THEN Append(_raw_points, r.v) ELSE _raw_points
        /\ _raw_dts' = IF rec THEN Append(_raw_dts, P.dt) ELSE _raw_dts
        /\ points' = IF rec THEN Append(points, VScale(r.v, P.scale)) ELSE points
        /\ i' = IF r.ok /\ ~unstable THEN i + 1 ELSE i
        /\ pc' = IF r.ok /\ ~unstable THEN "fixed" ELSE "idle"
        /\ report' = IF ~r.ok THEN Failed(r.err, "", 0 - 1)
                     ELSE IF unstable THEN Failed("ValueError", InstabilityFixed, i)
                     ELSE report

\* Lines 901-910: one iteration of the fixed-step loop.
FixedStep ==
    /\ pc = "fixed"
    /\ FixedLoopRuns(i, P)
    /\ FixedAdvance(FixedStepper(stepper, rhs_func, p, params, P.dt))
    /\ UNCHANGED <<P, objects, _original_curve_cache, _simplify_source_cache,
                   _working_curve_cache, _smooth_source_cache, raw_export, dt, pts_gen,
                   burn_done, params, rhs_func, stepper, tried, attempt, eval_out, geom>>

\* Line 878: the stepper of the adaptive loop applied to the state.
AdaptiveStepper(name, f, q, pr, h, tol5, stages) ==
    IF name = "step_dp5" THEN step_dp5(f, q, pr, h, tol5, stages)
    ELSE step_rkf45(f, q, pr, h, tol5, stages)

\* Line 880: the step size clamped into min_dt..max_dt.
ClampDt(props, h) == PyMax(props.min_dt, PyMin(props.max_dt, h))

\* Lines 881-893: what an iteration does with the stepper's result r for
\* the step size dt1, the later stages having given st.
AdaptiveAdvance(dt1, st, r) ==
    LET acc == r.ok /\ r.accepted
        unstable == r.ok /\ r.accepted /\ HasNonFinite(r.v)
        good == r.ok /\ r.accepted /\ ~HasNonFinite(r.v)
    IN  /\ attempt' = [n |-> 1 - attempt.n, accepted |-> acc]
        /\ tried' = IF r.ok THEN tried \cup {<<dt1, st>>} ELSE tried
        /\ p' = IF acc THEN r.v ELSE p
        /\ produced' = IF acc THEN Append(produced, r.v) ELSE produced
        /\ IF good /\ BurnInDone(burn_done, P)
           THEN /\ _raw_points' = Append(_raw_points, r.v)
                /\ _raw_dts' = Append(_raw_dts, dt1)
                /\ points' = Append(points, VScale(r.v, P.scale))
                /\ pts_gen' = pts_gen + 1
                /\ UNCHANGED burn_done
           ELSE /\ burn_done' = IF good THEN burn_done + 1 ELSE burn_done
                /\ UNCHANGED <<_raw_points, _raw_dts, points, pts_gen>>
        /\ dt' = IF ~r.ok \/ unstable THEN dt1 ELSE r.next_dt
        /\ pc' = IF ~r.ok \/ unstable THEN "idle" ELSE "adaptive"
        /\ report' = IF ~r.ok THEN Failed(r.err, "", 0 - 1)
                     ELSE IF unstable THEN Failed("ValueError", InstabilityAdaptive, 0 - 1)
                     ELSE report

\* The outcomes of the later stages at the step size dt1: drawn from
\* StageSet the first time the step size is tried, and the same whenever
\* it is tried again (the fields considered are those whose error estimate
\* depends on the step size alone).
StageChoices(dt1) ==
    IF \E m \in tried : m[1] = dt1
    THEN {m[2] : m \in {k \in tried : k[1] = dt1}}
    ELSE StageSet(stepper, P.tolerance)

\* Lines 879-895: one iteration of the adaptive loop.
AdaptiveStep ==
    /\ pc = "adaptive"
    /\ AdaptiveLoopRuns(pts_gen, P)
    /\ \E st \in StageChoices(ClampDt(P, dt)) :
         AdaptiveAdvance(ClampDt(P, dt), st,
                         AdaptiveStepper(stepper, rhs_func, p, params, ClampDt(P, dt),
                                         P.tolerance,
                                         [y5 |-> Y5(st.kind, p), err5 |-> st.err5]))
    /\ UNCHANGED <<P, objects, _original_curve_cache, _simplify_source_cache,
                   _working_curve_cache, _smooth_source_cache, raw_export, i, params,
                   rhs_func, stepper, calls, eval_out, geom>>

\* The loop of the running build has ended without an exception.
LoopDone ==
    IF pc = "adaptive" THEN ~AdaptiveLoopRuns(pts_gen, P) ELSE ~FixedLoopRuns(i, P)

\* Lines 930-935: the assignments that reset the post-processing properties,
\* each running its update callback on the object that was active before.
ResetPostProcessing(W, count, name) ==
    LET W1 == update_interactive_trim([W EXCEPT !.P.trim_start = 0])
        W2 == update_interactive_trim([W1 EXCEPT !.P.trim_end = 100])
        W3 == update_simplify_percent([W2 EXCEPT !.P.simplify_percent = 100])
        W4 == update_simplify_live([W3 EXCEPT !.P.simplify_target = count])
    IN  [W4 EXCEPT !.P.active_curve = name,
                   !.P.active_curve_name = name,
                   !.P.show_post_processing = TRUE]

\* Lines 913-941: the points are centred and written to the output curve,
\* the caches of the object are reset and the post-processing panel opens.
BuildFinish ==
    /\ pc \in {"adaptive", "fixed"}
    /\ LoopDone
    /\ pc' = "idle"
    /\ IF points = <<>>
       THEN /\ report' = Report("build", "WARNING", "", "No points were generated.", 0 - 1)
            /\ UNCHANGED <<P, objects, points, _original_curve_cache,
                           _simplify_source_cache, _working_curve_cache, _smooth_source_cache>>
       ELSE LET centered == Centered(points)
                name == P.curve_name
                W0 == [P |-> P,
                       objects |-> write_polyline(make_or_get_curve(objects, name), name, centered),
                       orig |-> [Pop(_original_curve_cache, name) EXCEPT ![name] = Present(centered)],
                       simp |-> Pop(_simplify_source_cache, name),
                       work |-> Pop(_working_curve_cache, name)]
                W == ResetPostProcessing(W0, Len(centered), name)
            IN  /\ points' = centered
                /\ P' = W.P
                /\ objects' = W.objects
                /\ _original_curve_cache' = W.orig
                /\ _simplify_source_cache' = W.simp
                /\ _working_curve_cache' = W.work
                /\ _smooth_source_cache' = Pop(_smooth_source_cache, name)
                /\ report' = Report("build", "INFO", "", "Generated", 0 - 1)
    /\ UNCHANGED <<_raw_points, _raw_dts, raw_export, p, dt, pts_gen, burn_done, i, params,
                   rhs_func, stepper, calls, produced, tried, attempt, eval_out, geom>>

\* ATTRACTOR_OT_export_raw.execute: the raw points become the vertices of a
\* new RawPoints mesh, unless there are none.
ExportRaw ==
    /\ pc = "idle"
    /\ IF _raw_points = <<>>
       THEN /\ report' = Report("export_raw", "ERROR", "", "No raw ODE points available.", 0 - 1)
            /\ UNCHANGED raw_export
       ELSE /\ raw_export' = _raw_points
            /\ report' = Report("export_raw", "INFO", "", "Exported", 0 - 1)
    /\ UNCHANGED <<P, objects, _original_curve_cache, _simplify_source_cache,
                   _working_curve_cache, _smooth_source_cache, _raw_points, _raw_dts, pc, p,
                   points, dt, pts_gen, burn_done, i, params, rhs_func, stepper, calls,
                   produced, tried, attempt, eval_out, geom>>

\* What a change of the properties alone leaves as it is.
OnlyProps ==
    UNCHANGED <<objects, _original_curve_cache, _simplify_source_cache,
                _working_curve_cache, _smooth_source_cache, _raw_points, _raw_dts,
                raw_export, pc, p, points, dt, pts_gen, burn_done, i, params, rhs_func,
                stepper, calls, produced, tried, attempt>>

\* The user picks an entry in the dropdown of the current mode.
SelectEntry ==
    /\ pc = "idle"
    /\ \E name \in DOMAIN Library :
         P' = IF P.mode = "DEFAULT"
              THEN update_attractor_defaults([P EXCEPT !.attractor_type = name])
              ELSE _on_custom_select([P EXCEPT !.custom_selected = name])
    /\ UNCHANGED <<report, eval_out, geom>>
    /\ OnlyProps

\* The user types an equation into the dx field of the custom panel.
EditEquation ==
    /\ pc = "idle"
    /\ P.mode = "CUSTOM"
    /\ \E e \in EqInputs : P' = on_custom_equation_change([P EXCEPT !.custom_dx = e])
    /\ UNCHANGED <<report, eval_out, geom>>
    /\ OnlyProps

\* ATTRACTOR_OT_custom_validate.execute.
Validate ==
    /\ pc = "idle"
    /\ P.mode = "CUSTOM"
    /\ P' = validate_and_update_params(P)
    /\ report' = IF P'.custom_validate_state = "OK"
                 THEN Report("custom_validate", "INFO", "", "Validation successful.", 0 - 1)
                 ELSE Report("custom_validate", "ERROR", "", P'.custom_validate_msg, 0 - 1)
    /\ UNCHANGED <<eval_out, geom>>
    /\ OnlyProps

Next ==
    \/ BuildBegin
    \/ FixedStep
    \/ AdaptiveStep
    \/ BuildFinish
    \/ ExportRaw

Spec == Init /\ [][Next]_vars

\* What a step of a running build changes: its position, the number of
\* stepper calls of the fixed loop, the iteration parity of the adaptive loop.
position == <<pc, calls, attempt>>

\* The shape of a step of a running build.  Every FixedStep, AdaptiveStep
\* and BuildFinish step has it, no other step of Next has it, and a step
\* of Next of this shape is possible exactly while a build is in progress
\* (the loop either runs once more or has ended, lines 879, 901, 913).
BuildRuns ==
    /\ pc # "idle"
    /\ pc' \in {"idle", "fixed", "adaptive"}
    /\ calls' \in {calls, calls + 1}
    /\ attempt' \in [n : {0, 1}, accepted : BOOLEAN]

\* execute is synchronous: once started, the interpreter runs its loops on
\* until the operator returns.
SpecFair == Spec /\ WF_position(BuildRuns)

\* ------------------------------------------------------------------------
\* The custom panel: typing, validating and evaluating expressions
\* ------------------------------------------------------------------------

\* Largest number of wrappings of a typed expression.
MaxDepth == 1

\* The leaves of the typed expressions: literals (a number, a string that
\* float() parses and one it does not, True, None), the coordinate x, a
\* name a, and an attribute access.
Atoms ==
    {Num(2), Num(0), Constant("strnum", F(2)), Constant("strbad", NaN),
     Constant("bool", F(1)), Constant("none", NaN), Name("x"), Name("a"),
     Attribute(Name("x"), "real")}

\* An expression e wrapped once: -e, not e, e + x, 1 / e, e ^ x, fabs(e),
\* fabs(x, k=e), eval(e), e.real(x) and e[0].
Wraps(e) ==
    {UnaryOp("USub", e), UnaryOp("Not", e),
     BinOp(e, "Add", Name("x")), BinOp(Num(1), "Div", e), BinOp(e, "BitXor", Name("x")),
     Call(Name("fabs"), <<e>>, <<>>),
     Call(Name("fabs"), <<Name("x")>>, <<keyword("k", e)>>),
     Call(Name("eval"), <<e>>, <<>>),
     Call(Attribute(e, "real"), <<Name("x")>>, <<>>),
     Subscript(e, Num(0))}

WrapAll(exprs) == exprs \cup UNION {Wraps(e) : e \in exprs}

RECURSIVE Exprs(_)
\* The expressions of at most d wrappings.
Exprs(d) == IF d = 0 THEN Atoms ELSE WrapAll(Exprs(d - 1))

\* The points an expression is evaluated at.
EvalPoints == {Vector(F(0), F(1), F(2)), Vector(F(2), F(0), F(1))}

InitEval ==
    /\ \E e \in Exprs(MaxDepth) \cup {SyntaxErr} :
         P = on_custom_equation_change(
                 [ChosenProps("CUSTOM", "Rot", 2, 0, F(1)) EXCEPT !.custom_dx = e])
    /\ InitRest
    /\ geom = NoCall

\* The closure _f of the compiled dx expression called at a point, as the
\* field does for every stage of a step.
Evaluate ==
    /\ pc = "idle"
    /\ _compile_rhs_expression(P.custom_dx).ok
    /\ \E q \in EvalPoints :
         eval_out' = _f(_compile_rhs_expression(P.custom_dx).tree,
                        q[1], q[2], q[3], P.custom_params)
    /\ UNCHANGED <<P, objects, _original_curve_cache, _simplify_source_cache,
                   _working_curve_cache, _smooth_source_cache, _raw_points, _raw_dts,
                   raw_export, pc, p, points, dt, pts_gen, burn_done, i, params, rhs_func,
                   stepper, report, calls, produced, tried, attempt, geom>>

NextEval ==
    \/ EditEquation
    \/ Validate
    \/ SelectEntry
    \/ Evaluate

SpecEval == InitEval /\ [][NextEval]_vars

\* ------------------------------------------------------------------------
\* The post-processing panel: building, renaming, trimming, simplifying
\* ------------------------------------------------------------------------

\* The number of points of the curves built here (props.steps).
PanelSteps == 3

\* The values the trim sliders are set to (lines 764-765: 0 to 100).
Percents == {0, 50, 100}

\* The values the simplify slider is set to.
Shares == {50, 100}

\* The library entries picked here: a field that generates a curve, and
\* one whose first step raises.
PanelEntries == {"Const", "Sing"}

\* The properties, the objects and the caches the update callbacks act on.
World ==
    [P |-> P, objects |-> objects, orig |-> _original_curve_cache,
     simp |-> _simplify_source_cache, work |-> _working_curve_cache]

\* Lines 1471-1481: the panel is drawn when post-processing is shown and
\* the active curve exists.
PanelShown ==
    /\ pc = "idle"
    /\ P.show_post_processing
    /\ P.active_curve_name \in ObjNames
    /\ objects[P.active_curve_name].has

\* What an update callback of the panel leaves as it is.
OnlyWorld ==
    UNCHANGED <<_smooth_source_cache, _raw_points, _raw_dts, raw_export, pc, p, points,
                dt, pts_gen, burn_done, i, params, rhs_func, stepper, report, calls,
                produced, tried, attempt, eval_out, geom>>

\* The world W is what a callback has left.
Becomes(W) ==
    /\ P' = W.P
    /\ objects' = W.objects
    /\ _original_curve_cache' = W.orig
    /\ _simplify_source_cache' = W.simp
    /\ _working_curve_cache' = W.work
    /\ OnlyWorld

\* The user moves the Start slider.
SetTrimStart ==
    /\ PanelShown
    /\ \E v \in Percents : Becomes(update_interactive_trim([World EXCEPT !.P.trim_start = v]))

\* The user moves the End slider.
SetTrimEnd ==
    /\ PanelShown
    /\ \E v \in Percents : Becomes(update_interactive_trim([World EXCEPT !.P.trim_end = v]))

\* The user moves the simplify slider.
SetSimplifyPercent ==
    /\ PanelShown
    /\ \E v \in Shares : Becomes(update_simplify_percent([World EXCEPT !.P.simplify_percent = v]))

\* The user types an output name.
Rename ==
    /\ pc = "idle"
    /\ \E n \in ObjNames : P' = reset_post_processing_state_update([P EXCEPT !.curve_name = n])
    /\ UNCHANGED <<report, eval_out, geom>>
    /\ OnlyProps

\* The user picks an attractor of the default library.
SelectAttractor ==
    /\ pc = "idle"
    /\ \E name \in PanelEntries :
         P' = update_attractor_defaults([P EXCEPT !.attractor_type = name])
    /\ UNCHANGED <<report, eval_out, geom>>
    /\ OnlyProps

InitPanel ==
    /\ P = ChosenProps("DEFAULT", "Const", PanelSteps, 0, F(1))
    /\ InitRest
    /\ geom = NoCall

NextPanel ==
    \/ BuildBegin
    \/ FixedStep
    \/ BuildFinish
    \/ SetTrimStart
    \/ SetTrimEnd
    \/ SetSimplifyPercent
    \/ Rename
    \/ SelectAttractor

SpecPanel == InitPanel /\ [][NextPanel]_vars

\* ------------------------------------------------------------------------
\* The simulation panel: picking a method and an entry, typing, validating,
\* building
\* ------------------------------------------------------------------------

\* The user picks a method in the Method dropdown.
SelectMethod ==
    /\ pc = "idle"
    /\ \E m \in Methods : P' = integration_method_update([P EXCEPT !.integration_method = m])
    /\ UNCHANGED <<report, eval_out, geom>>
    /\ OnlyProps

InitCustom ==
    /\ \E mode \in {"DEFAULT", "CUSTOM"} : P = ChosenProps(mode, "Const", 2, 0, F(1))
    /\ InitRest
    /\ geom = NoCall

\* No build has generated anything yet.
BeforeBuild == _raw_points = <<>>

\* The user sets the panel up in any order, and then builds.
NextCustom ==
    \/ BeforeBuild /\ SelectMethod
    \/ BeforeBuild /\ SelectEntry
    \/ BeforeBuild /\ EditEquation
    \/ BeforeBuild /\ Validate
    \/ BeforeBuild /\ BuildBegin
    \/ FixedStep
    \/ AdaptiveStep
    \/ BuildFinish

SpecCustom == InitCustom /\ [][NextCustom]_vars

\* ------------------------------------------------------------------------
\* The scan for parameter names called on its own
\* ------------------------------------------------------------------------

\* The texts of an axis: one that does not parse, a, a * b, b + fabs(y),
\* eval(a, k=c), sin(x), a.real and 2.
AxisTexts ==
    {SyntaxErr, Name("a"), BinOp(Name("a"), "Mult", Name("b")),
     BinOp(Name("b"), "Add", Call(Name("fabs"), <<Name("y")>>, <<>>)),
     Call(Name("eval"), <<Name("a")>>, <<keyword("k", Name("c"))>>),
     Call(Name("sin"), <<Name("x")>>, <<>>),
     Attribute(Name("a"), "real"), Num(2)}

InitNames ==
    /\ \E ex \in AxisTexts, ey \in AxisTexts, ez \in AxisTexts :
         P = on_custom_equation_change(
                 [ChosenProps("CUSTOM", "Rot", 2, 0, F(1))
                     EXCEPT !.custom_dx = ex, !.custom_dy = ey, !.custom_dz = ez])
    /\ InitRest
    /\ geom = NoCall

\* detect_parameter_names called on the three axes of the panel.
Detect ==
    /\ geom.fn = ""
    /\ geom' = [fn |-> "detect_parameter_names",
                r |-> sorted(detect_parameter_names(P.custom_dx, P.custom_dy, P.custom_dz))]
    /\ UNCHANGED <<P, objects, _original_curve_cache, _simplify_source_cache,
                   _working_curve_cache, _smooth_source_cache, _raw_points, _raw_dts,
                   raw_export, pc, p, points, dt, pts_gen, burn_done, i, params, rhs_func,
                   stepper, report, calls, produced, tried, attempt, eval_out>>

NextNames == Detect

SpecNames == InitNames /\ [][NextNames]_vars

\* ------------------------------------------------------------------------
\* The geometry utilities called on their own
\* ------------------------------------------------------------------------

\* Longest point list given to a utility.
MaxPts == 4

\* The points the lists are made of.
PointPool ==
    {Vector(F(0), F(0), F(0)), Vector(F(1), F(0), F(0)),
     Vector(F(3), F(0), F(0)), Vector(F(3), F(4), F(0))}

\* A float with a rational square root.
HasRoot(c) ==
    /\ \E r \in 0..c[1] : r * r = c[1]
    /\ \E r \in 1..c[2] : r * r = c[2]

\* The point lists of at most k points.
RECURSIVE Lists(_)
Lists(k) ==
    IF k = 0 THEN {<<>>}
    ELSE Lists(k - 1) \cup {Append(l, q) : l \in {x \in Lists(k - 1) : Len(x) = k - 1},
                                            q \in PointPool}

\* The polylines whose segments have rational lengths.
Polylines ==
    {l \in Lists(MaxPts) :
        \A k \in 1..(Len(l) - 1) : HasRoot(LengthSquared(VSub(l[k + 1], l[k])))}

\* The target counts asked for.
Counts == 0..(MaxPts + 1)

\* A call fn(pts, arg) that returned r; again tells that pts is what the
\* call before returned.
Called(fn, pts, arg, r, again) ==
    [fn |-> fn, pts |-> pts, arg |-> arg, r |-> r, again |-> again]

\* What a call of a utility leaves as it is.
OnlyGeom ==
    UNCHANGED <<P, objects, _original_curve_cache, _simplify_source_cache,
                _working_curve_cache, _smooth_source_cache, _raw_points, _raw_dts,
                raw_export, pc, p, points, dt, pts_gen, burn_done, i, params, rhs_func,
                stepper, report, calls, produced, tried, attempt, eval_out>>

\* _resample_even called on a polyline.
Resample ==
    /\ geom.fn = ""
    /\ "pts" \in DOMAIN geom
    /\ \E m \in Counts :
         geom' = Called("_resample_even", geom.pts, m, _resample_even(geom.pts, m), FALSE)
    /\ OnlyGeom

\* _resample_even called on what it returned, with the same count.
ResampleAgain ==
    /\ geom.fn = "_resample_even"
    /\ ~geom.again
    /\ geom' = Called("_resample_even", geom.r.out, geom.arg,
                      _resample_even(geom.r.out, geom.arg), TRUE)
    /\ OnlyGeom

\* The tolerances of a simplification.
Epsilons == {F(0), F(1), F(3), F(0 - 1)}

\* ramer_douglas_peucker called on a polyline.
Simplify ==
    /\ geom.fn = ""
    /\ "pts" \in DOMAIN geom
    /\ \E e \in Epsilons :
         geom' = Called("ramer_douglas_peucker", geom.pts, e,
                        ramer_douglas_peucker(geom.pts, e), FALSE)
    /\ OnlyGeom

\* The values of smooth_fidelity.
Fidelities == {F(0), F(1)}

\* The segments of l have rational lengths.
Measurable(l) == \A k \in 1..(Len(l) - 1) : HasRoot(LengthSquared(VSub(l[k + 1], l[k])))

\* The lengths smooth_apply takes of src_points at fidelity f are
\* rational: the diagonal, and the segments of the control points.
RationalLengths(src_points, f) ==
    /\ HasRoot(Diagonal2(src_points))
    /\ Measurable(ramer_douglas_peucker(
                      src_points, Epsilon(Sqrt(Diagonal2(src_points)), f)).out)

\* Apply Smooth on a curve whose visible points are a polyline.
Smooth ==
    /\ geom.fn = ""
    /\ "pts" \in DOMAIN geom
    /\ \E f \in Fidelities :
         /\ Len(geom.pts) >= 2 => RationalLengths(Capped(geom.pts, SourceCap), f)
         /\ geom' = Called("smooth_apply", geom.pts, f, smooth_apply(geom.pts, f), FALSE)
    /\ OnlyGeom

\* Most anchors of a spline.
MaxAnchors == 3

\* Where the anchors lie on the x axis.
AnchorXs == {0, 24, 48}

\* The anchor at x, between the anchors at before and after, its handles a
\* third of the way to each.
Anchor(before, x, after) ==
    [co |-> Vector(F(x), F(0), F(0)),
     handle_left |-> Vector(Flt(2 * x + before, 3), F(0), F(0)),
     handle_right |-> Vector(Flt(2 * x + after, 3), F(0), F(0))]

\* The Bezier points at xs, the first and the last being neighbours.
Anchors(xs) ==
    [k \in 1..Len(xs) |->
        Anchor(xs[IF k = 1 THEN Len(xs) ELSE k - 1], xs[k],
               xs[IF k = Len(xs) THEN 1 ELSE k + 1])]

\* The curves sampled: without a spline, with a poly spline, with a Bezier
\* spline, open or cyclic.
Curves ==
    {NoSpline, CurveOf([type |-> "POLY", use_cyclic_u |-> FALSE, bezier_points |-> <<>>])}
        \cup {CurveOf([type |-> "BEZIER", use_cyclic_u |-> c, bezier_points |-> Anchors(xs)]) :
                  c \in BOOLEAN, xs \in UNION {[1..n -> AnchorXs] : n \in 0..MaxAnchors}}

\* The target counts asked of a sampling.
TargetCounts == 0..(4 * MaxAnchors + 1)

\* A curve no utility was called on yet.
PendingCurve(cu) == [fn |-> "", curve |-> cu]

\* _sample_bezier_uniform called on a curve.
Sample ==
    /\ geom.fn = ""
    /\ "curve" \in DOMAIN geom
    /\ \E n \in TargetCounts :
         geom' = [fn |-> "_sample_bezier_uniform", curve |-> geom.curve, arg |-> n,
                  r |-> _sample_bezier_uniform(geom.curve, n)]
    /\ OnlyGeom

InitGeom ==
    /\ P = DefaultProps(2, 0, F(1))
    /\ InitRest
    /\ geom \in {Pending(l) : l \in Polylines} \cup {PendingCurve(cu) : cu \in Curves}

NextGeom ==
    \/ Resample
    \/ ResampleAgain
    \/ Simplify
    \/ Sample
    \/ Smooth

SpecGeom == InitGeom /\ [][NextGeom]_vars

\* ------------------------------------------------------------------------
\* Properties
\* ------------------------------------------------------------------------

OperatorNames == {"UAdd", "USub", "Add", "Sub", "Mult", "Div", "Mod", "Pow"}

\* A node of the grammar of expressions: a numeric literal, a name, a
\* unary or binary operation, or a call.
GrammarNode(n) ==
    /\ n.t \in {"Expression", "Constant", "Name", "UnaryOp", "BinOp", "Call"}
    /\ n.t = "Constant" => n.id = "num"

\* C1: a successful evaluation invokes no callable outside the whitelist
\* (the operators, the math functions and the conversion of a literal), and
\* every sub-tree that contributed to it consists of grammar nodes only:
\* numeric literals, names, unary and binary operations and calls, with no
\* attribute access, subscript or keyword argument anywhere inside.
C1_SuccessUsesOnlyWhitelist ==
    eval_out.ok =>
        /\ eval_out.called \subseteq _ALLOWED_FUNCS \cup OperatorNames \cup {"float"}
        /\ \A n \in eval_out.visited : \A m \in ast_walk(n) : GrammarNode(m)

\* An expression built only from x, y, z, declared parameters, literals,
\* the operators and calls of whitelisted functions.
SafeExpression(e, props) ==
    \A m \in ast_walk(e) :
        /\ m.t \in {"Constant", "Name", "UnaryOp", "BinOp", "Call"}
        /\ m.t = "Name" =>
               m.id \in _ALLOWED_VARS \cup _ALLOWED_FUNCS \cup DOMAIN props.custom_params
        /\ m.t = "Call" => m.kids[1].t = "Name" /\ m.kids[1].id \in _ALLOWED_FUNCS

\* C2: an expression that compiled and passed validation is safe: with an
\* attribute access, a call of a function outside the whitelist or any
\* other node outside the whitelist, validation does not end in state OK.
C2_ValidatedIsSafe ==
    P.custom_validate_state = "OK" => SafeExpression(P.custom_dx, P)

FixedSteppers == {"step_euler", "step_heun", "step_rk4"}

\* The last build was a fixed-step one whose loop ran to its end.
FixedCompleted ==
    /\ stepper \in FixedSteppers
    /\ \/ pc = "fixed" /\ i = P.steps + P.burn_in
       \/ pc = "idle" /\ report.op = "build" /\ report.level = "INFO"

\* The point the k-th stepper call of a build started from.
CallStart(k) == IF k = 1 THEN Vector(P.x0, P.y0, P.z0) ELSE produced[k - 1]

\* C3: a fixed-step generation that does not abort makes exactly
\* steps + burn_in stepper calls, each at the constant dt from the result
\* of the one before; the results of the first burn_in calls are not
\* recorded, and the following steps results are recorded in order, each
\* with the constant dt.
C3_FixedCallsAndRecords ==
    FixedCompleted =>
        /\ calls = P.steps + P.burn_in
        /\ Len(produced) = calls
        /\ \A k \in 1..Len(produced) :
               produced[k] = FixedStepper(stepper, rhs_func, CallStart(k), params, P.dt).v
        /\ Len(points) = P.steps
        /\ Len(_raw_points) = P.steps + 1
        /\ Len(_raw_dts) = P.steps + 1
        /\ \A k \in 1..P.steps :
               /\ _raw_points[k + 1] = produced[P.burn_in + k]
               /\ _raw_dts[k + 1] = P.dt

\* A fixed-step build with a burn-in has completed.
C3_FixedBuildWithBurnIn ==
    /\ FixedCompleted
    /\ pc = "idle"
    /\ P.burn_in > 0
    /\ Len(_raw_points) = P.steps + 1

\* An iteration of the adaptive loop whose attempt was rejected.
RejectedAttempt ==
    /\ pc = "adaptive"
    /\ pc' = "adaptive"
    /\ attempt'.n # attempt.n
    /\ ~attempt'.accepted

\* The counters and the recorded sequences of the adaptive loop, in terms
\* of the accepted steps so far.
AdaptiveBookkeeping ==
    pc = "adaptive" =>
        /\ burn_done = Min(Len(produced), P.burn_in)
        /\ pts_gen = Len(produced) - burn_done
        /\ pts_gen <= P.steps
        /\ Len(points) = pts_gen
        /\ Len(_raw_points) = pts_gen + 1
        /\ Len(_raw_dts) = pts_gen + 1
        /\ \A k \in 1..pts_gen :
               /\ _raw_points[k + 1] = produced[P.burn_in + k]
               /\ points[k] = VScale(produced[P.burn_in + k], P.scale)

\* C4: a rejected attempt changes neither the point, nor the burn-in
\* counter, nor the recorded-point counter, nor the recorded sequences;
\* exactly the first burn_in accepted steps are discarded; and the loop
\* ends exactly when steps accepted points have been recorded.
C4_RejectedAttemptsChangeNothing ==
    [][/\ RejectedAttempt =>
              UNCHANGED <<p, burn_done, pts_gen, points, produced, _raw_points, _raw_dts>>
       /\ AdaptiveBookkeeping'
       /\ (pc = "adaptive" /\ pc' = "idle" /\ report'.level = "INFO") =>
              (pts_gen = P.steps /\ Len(produced) = P.steps + P.burn_in)]_vars

\* An adaptive loop with a burn-in has recorded all its points, some
\* attempt having been rejected.
C4_RecordedAfterRejections ==
    /\ pc = "adaptive"
    /\ pts_gen = P.steps
    /\ P.burn_in > 0
    /\ \E m \in tried : m[2].err5 # F(0)

\* The build failed with the instability error.
IsInstability(r) ==
    /\ r.op = "build"
    /\ r.level = "ERROR"
    /\ r.msg \in {InstabilityAdaptive, InstabilityFixed}

\* C5: when the point a build advanced to has a NaN or infinite
\* coordinate, the build is aborted with the instability error, and the
\* error carries the index of the offending step.
C5_InstabilityCarriesStepIndex ==
    (pc = "idle" /\ report.op = "build" /\ produced # <<>>
        /\ \E k \in 1..3 : ~IsFinite(produced[Len(produced)][k])) =>
        /\ IsInstability(report)
        /\ report.step = Len(produced) - 1

\* C6: a build of the field 1/x started at x = 0 fails with the
\* instability error at step 0 or 1, and with no other kind of error.
C6_SingularityIsInstability ==
    (P.mode = "DEFAULT" /\ P.attractor_type = "Sing" /\ pc = "idle" /\ report.op = "build") =>
        /\ IsInstability(report)
        /\ report.step \in {0, 1}

\* C7: a generation that has started ends, by recording all its points or
\* by aborting.
C7_GenerationEnds == (pc # "idle") ~> (pc = "idle")

\* The build was aborted by an exception raised while stepping.
AbortedWhileStepping ==
    /\ pc = "idle"
    /\ report.op = "build"
    /\ report.level = "ERROR"
    /\ report.msg # NotValidated
    /\ report.exc # "SyntaxError"

\* C8: after a build was aborted while stepping, the output curve holds no
\* points and the raw lists hold no sample of the aborted run (at most the
\* starting point).
C8_AbortLeavesNoSamples ==
    AbortedWhileStepping =>
        /\ objects["Attractor"].pts = <<>>
        /\ Len(_raw_points) <= 1
        /\ Len(_raw_dts) <= 1

\* C9: the raw lists have the same length and no stored point has a NaN
\* or infinite coordinate.
C9_RawListsPairedAndFinite ==
    /\ Len(_raw_points) = Len(_raw_dts)
    /\ \A k \in 1..Len(_raw_points) : \A j \in 1..3 : IsFinite(_raw_points[k][j])

\* A build was aborted for instability after it had recorded a point.
C9_AbortAfterRecording ==
    /\ IsInstability(report)
    /\ pc = "idle"
    /\ Len(_raw_points) >= 2

\* The points recorded by the last build: the raw points after the seed.
Recorded == SubSeq(_raw_points, 2, Len(_raw_points))

\* The polyline of the output curve.
Rendered == objects["Attractor"].pts

\* C10: after a successful build the output polyline has the length and
\* order of the recorded points, its k-th point is scale times the k-th
\* recorded point minus the centroid of the scaled recorded points, and
\* its own centroid is the origin.
C10_OutputIsCentred ==
    (pc = "idle" /\ report.op = "build" /\ report.level = "INFO") =>
        /\ Len(Rendered) = Len(Recorded)
        /\ \A k \in 1..Len(Rendered) :
               Rendered[k] = VSub(VScale(Recorded[k], P.scale),
                                  Centroid([j \in 1..Len(Recorded) |->
                                               VScale(Recorded[j], P.scale)]))
        /\ Centroid(Rendered) = Zero3

\* Vector.cross.
Cross(u, v) ==
    Vector(FSub(FMul(u[2], v[3]), FMul(u[3], v[2])),
           FSub(FMul(u[3], v[1]), FMul(u[1], v[3])),
           FSub(FMul(u[1], v[2]), FMul(u[2], v[1])))

\* q lies on the segment from a to b.
OnSegment(q, a, b) ==
    /\ Cross(VSub(q, a), VSub(b, a)) = Zero3
    /\ FLe(F(0), Dot(VSub(q, a), VSub(b, a)))
    /\ FLe(Dot(VSub(q, a), VSub(b, a)), LengthSquared(VSub(b, a)))

\* The total chord length of a polyline.
ChordLength(l) == SumTo(SegmentLengths(l), Len(l) - 1)

\* The case in which resample_even(l, m) resamples.
Resamples(l, m) ==
    /\ Len(l) >= 2
    /\ 1 < m
    /\ m < Len(l)
    /\ FLt(TinyLength, ChordLength(l))

\* C11: resample_even(points, m) returns exactly m points, each on a
\* segment between two consecutive input points, when n >= 2, 1 < m < n
\* and the total chord length exceeds the threshold; in every other case
\* it returns a new list equal to the input; it never modifies the input.
C11_ResampleCountAndSegments ==
    geom.fn = "_resample_even" =>
        /\ geom.r.arg = geom.pts
        /\ geom.r.fresh
        /\ ~geom.r.none
        /\ IF Resamples(geom.pts, geom.arg)
           THEN /\ Len(geom.r.out) = geom.arg
                /\ \A k \in 1..Len(geom.r.out) :
                       \E j \in 1..(Len(geom.pts) - 1) :
                           OnSegment(geom.r.out[k], geom.pts[j], geom.pts[j + 1])
           ELSE geom.r.out = geom.pts

\* A polyline has been resampled to fewer points, one of them a point
\* that is not an input point.
C11_ResampledToInterpolated ==
    /\ geom.fn = "_resample_even"
    /\ Resamples(geom.pts, geom.arg)
    /\ \E k \in 1..Len(geom.r.out) : geom.r.out[k] \notin Range(geom.pts)

\* C14: resample_even(P, len(P)) equals P, and resampling the result of
\* resample_even(P, m) to m points again gives that result.
C14_ResampleIdempotent ==
    geom.fn = "_resample_even" =>
        /\ geom.arg = Len(geom.pts) => geom.r.out = geom.pts
        /\ geom.again => geom.r.out = geom.pts

\* A resampled polyline has been resampled again to the same count.
C14_ResampledTwice ==
    /\ geom.fn = "_resample_even"
    /\ geom.again
    /\ geom.arg > 1
    /\ Len(geom.pts) = geom.arg
    /\ \E k \in 1..Len(geom.pts) : geom.pts[k] \notin PointPool

\* The square of the distance of the k-th point of l to the segment
\* between the ends of l.
Offset2(l, k) == Distance2(l[k], l[1], l[Len(l)])

\* The interior point of l where it is split: the first of those at the
\* greatest distance from the segment between the ends.
SplitPoint(l) ==
    CHOOSE k \in 2..(Len(l) - 1) :
        /\ \A j \in 2..(Len(l) - 1) : FLe(Offset2(l, j), Offset2(l, k))
        /\ \A j \in 2..(k - 1) : FLt(Offset2(l, j), Offset2(l, k))

\* The points of l lie on one line, in strictly increasing order along it.
StraightAndMonotonic(l) ==
    /\ l[1] # l[Len(l)]
    /\ \A k \in 1..(Len(l) - 1) :
           /\ Cross(VSub(l[k + 1], l[k]), VSub(l[Len(l)], l[1])) = Zero3
           /\ FLt(F(0), Dot(VSub(l[k + 1], l[k]), VSub(l[Len(l)], l[1])))

\* Three points with a right angle at the middle one.
RightAngleCorner(l) ==
    /\ Len(l) = 3
    /\ l[1] # l[2]
    /\ l[2] # l[3]
    /\ Dot(VSub(l[1], l[2]), VSub(l[3], l[2])) = F(0)

\* A distance of square d2 is greater than e.
Beyond(d2, e) == FLt(e, F(0)) \/ FLt(FMul(e, e), d2)

\* The result of ramer_douglas_peucker(l, e).
Simplified(l, e) == ramer_douglas_peucker(l, e).out

C13_SampleCount ==
    (/\ geom.fn = "_sample_bezier_uniform"
     /\ geom.curve.splines # <<>>
     /\ geom.curve.splines[1].type = "BEZIER") =>
        IF Len(geom.curve.splines[1].bezier_points) < 2 \/ geom.arg < 2
        THEN geom.r.none
        ELSE ~geom.r.none /\ Len(geom.r.out) = geom.arg

\* C13, the caller's case: a spline of distinct anchors in a row sampled to
\* 4 times its anchors gives that many points.
C13_SampleCountOfCaller ==
    (/\ geom.fn = "_sample_bezier_uniform"
     /\ geom.curve.splines # <<>>
     /\ geom.curve.splines[1].type = "BEZIER"
     /\ ~geom.curve.splines[1].use_cyclic_u
     /\ Len(geom.curve.splines[1].bezier_points) >= 2
     /\ \A k \in 1..(Len(geom.curve.splines[1].bezier_points) - 1) :
            geom.curve.splines[1].bezier_points[k].co
                # geom.curve.splines[1].bezier_points[k + 1].co
     /\ geom.arg = 4 * Len(geom.curve.splines[1].bezier_points)) =>
        ~geom.r.none /\ Len(geom.r.out) = geom.arg

\* A literal number.
NumericLiteral(n) == n.t = "Constant" /\ n.id = "num"

\* The expressions the last evaluation was entered on.
Evaluated == {n.kids[1] : n \in {m \in eval_out.visited : m.t = "Expression"}}

\* C15: the evaluation of a division or a modulo of a number by zero does
\* not fail: it returns an infinity or NaN.
C15_DivisionByZeroIsAValue ==
    \A e \in Evaluated :
        (/\ e.t = "BinOp"
         /\ e.id \in {"Div", "Mod"}
         /\ NumericLiteral(e.kids[1])
         /\ e.kids[2] = Num(0)) =>
            eval_out.ok /\ ~IsFinite(eval_out.val)

\* An operand the grammar allows: a coordinate or a literal number.
AllowedOperand(n) == (n.t = "Name" /\ n.id \in _ALLOWED_VARS) \/ NumericLiteral(n)

\* C20: an operation on allowed operands is not rejected as unsafe when
\* its operator is unary + or - or one of the six binary operators, and is
\* rejected with the unsafe-expression error, not with an error of another
\* kind, when its operator is any other.
C20_OtherOperatorsAreUnsafe ==
    \A e \in Evaluated :
        (/\ e.t \in {"UnaryOp", "BinOp"}
         /\ \A k \in DOMAIN e.kids : AllowedOperand(e.kids[k])) =>
            IF e.id \in OperatorNames
            THEN eval_out.err # "_UnsafeNodeError"
            ELSE ~eval_out.ok /\ eval_out.err = "_UnsafeNodeError"

RECURSIVE Mentions(_)
\* The identifiers an expression refers to.
Mentions(e) ==
    (IF e.t = "Name" THEN {e.id} ELSE {})
        \cup UNION {Mentions(e.kids[k]) : k \in DOMAIN e.kids}
        \cup UNION {Mentions(e.kw[k]) : k \in DOMAIN e.kw}

\* The axes of the panel that parse.
ParseableAxes == {P.custom_dx, P.custom_dy, P.custom_dz} \ {SyntaxErr}

\* C16: detect_parameter_names returns exactly the identifiers the
\* parseable axes refer to that are neither x, y, z nor the name of a
\* whitelisted function, each once; an axis that does not parse adds
\* nothing and does not keep the names of the other axes from being
\* returned.
C16_DetectedNames ==
    geom.fn = "detect_parameter_names" =>
        /\ Range(geom.r) =
               {id \in UNION {Mentions(e) : e \in ParseableAxes} :
                   id \notin {"x", "y", "z"} /\ id \notin _ALLOWED_FUNCS}
        /\ \A j, k \in DOMAIN geom.r : j # k => geom.r[j] # geom.r[k]

\* The names were detected with one axis that does not parse, one that
\* names a function and a coordinate, and one that names parameters.
C16_DetectedBesideUnparseable ==
    /\ geom.fn = "detect_parameter_names"
    /\ P.custom_dx = SyntaxErr
    /\ "fabs" \in Mentions(P.custom_dy)
    /\ Len(geom.r) = 2

\* An iteration of the adaptive loop whose stepper call returned.
StepperReturned ==
    /\ pc = "adaptive"
    /\ attempt'.n # attempt.n
    /\ pc' = "adaptive" \/ report'.msg = InstabilityAdaptive

\* What the later stages gave in the iteration being made.
StagesGiven == CHOOSE m \in tried' : m[1] = ClampDt(P, dt)

\* An error estimate no smaller than the floor.
Floored(err5) == IF FLe(err5, ErrFloor5) THEN ErrFloor5 ELSE err5

\* C17: an adaptive stepper accepts exactly when the floored error estimate
\* is at most the tolerance, and then returns the 5th-order point; when it
\* rejects it returns the point it was given; the parameters are left as
\* they were.
C17_AcceptsWithinTolerance ==
    [][StepperReturned =>
          /\ attempt'.accepted <=> FLe(Floored(StagesGiven[2].err5), P.tolerance)
          /\ attempt'.accepted => p' = Y5(StagesGiven[2].kind, p)
          /\ ~attempt'.accepted => p' = p
          /\ params' = params]_vars

\* A step was rejected for an error estimate above the tolerance, and the
\* loop goes on from the same point.
C17_StepRejected ==
    /\ pc = "adaptive"
    /\ attempt.n = 1
    /\ ~attempt.accepted
    /\ \E m \in tried : ~FLe(Floored(m[2].err5), P.tolerance)
    /\ p = Vector(P.x0, P.y0, P.z0)

\* A step size within the adaptive window of the settings.
InWindow(h) == FLe(P.min_dt, h) /\ FLe(h, P.max_dt)

\* C18: in an adaptive build every step size passed to the stepper and
\* every step size recorded with an accepted point lies in
\* [min_dt, max_dt], whatever the settings and whatever step sizes the
\* stepper suggests, and a recorded step size is one that was passed.
C18_StepSizesInWindow ==
    stepper \in {"step_rkf45", "step_dp5"} =>
        /\ \A m \in tried : InWindow(m[1])
        /\ \A k \in 2..Len(_raw_dts) :
               InWindow(_raw_dts[k]) /\ \E m \in tried : m[1] = _raw_dts[k]

\* C18 for the settings whose min_dt is not above max_dt.
C18_StepSizesInOrderedWindow ==
    (stepper \in {"step_rkf45", "step_dp5"} /\ FLe(P.min_dt, P.max_dt)) =>
        /\ \A m \in tried : InWindow(m[1])
        /\ \A k \in 2..Len(_raw_dts) :
               InWindow(_raw_dts[k]) /\ \E m \in tried : m[1] = _raw_dts[k]

\* The state of the running build after n advances of the stepper that
\* were taken (all of them in a fixed build, the accepted ones in an
\* adaptive one).
StateAfter(n) == IF n = 0 THEN Vector(P.x0, P.y0, P.z0) ELSE produced[n]

\* C19: the raw trajectory starts at the state recording begins from, the
\* state after the burn_in discarded advances (the initial condition when
\* burn_in is 0), and each later raw point is one advance, of the step
\* size recorded with it, from the raw point before it.
C19_RawStartsWhereRecordingBegins ==
    (pc # "idle" /\ Len(_raw_points) >= 2) =>
        /\ Len(_raw_dts) = Len(_raw_points)
        /\ \A k \in 1..Len(_raw_points) : _raw_points[k] = StateAfter(P.burn_in + k - 1)
        /\ \A k \in 2..Len(_raw_dts) :
               IF stepper \in FixedSteppers THEN _raw_dts[k] = P.dt
               ELSE \E m \in tried : m[1] = _raw_dts[k]

\* The farthest interior point of l as line 547 finds it.
Found(l) == Farthest(l, 2, 1, F(0))

\* C21: ramer_douglas_peucker and resample_even return a result, without
\* raising, for every point list and every epsilon or m, and the two
\* recursive calls of ramer_douglas_peucker are on lists shorter than the
\* caller's.
C21_GeometryIsTotal ==
    /\ geom.fn \in {"ramer_douglas_peucker", "_resample_even"} => geom.r.err = ""
    /\ (/\ geom.fn = "ramer_douglas_peucker"
        /\ Len(geom.pts) >= 3
        /\ Beyond(Found(geom.pts).dmax2, geom.arg)) =>
           /\ Len(SubSeq(geom.pts, 1, Found(geom.pts).index)) < Len(geom.pts)
           /\ Len(SubSeq(geom.pts, Found(geom.pts).index, Len(geom.pts))) < Len(geom.pts)

RECURSIVE Brackets(_, _, _, _, _)
\* The bracketing indices j (counted from 0) of the samples k, k+1, ...,
\* m-1 of the resampling of a list of n points, j being the index the
\* sample before k ended with.
Brackets(cum, n, m, k, j) ==
    IF k = m THEN <<>>
    ELSE <<Bracket(cum, n, FDiv(F(k), F(m - 1)), j)>>
             \o Brackets(cum, n, m, k + 1, Bracket(cum, n, FDiv(F(k), F(m - 1)), j))

\* The bracketing indices of the resampling of l to m points.
BracketsOf(l, m) ==
    Brackets(Cumulative(SegmentLengths(l), ChordLength(l)), Len(l), m, 0, 0)

\* C29: when resample_even resamples, the first output point is the first
\* input point and the last output point the last input point, and the
\* bracketing index j never decreases from one sample to the next and
\* stays within 0..n-2.
C29_EndsKeptAndBracketInRange ==
    (geom.fn = "_resample_even" /\ Resamples(geom.pts, geom.arg)) =>
        /\ geom.r.out[1] = geom.pts[1]
        /\ geom.r.out[Len(geom.r.out)] = geom.pts[Len(geom.pts)]
        /\ Len(BracketsOf(geom.pts, geom.arg)) = geom.arg
        /\ \A k \in 1..geom.arg :
               /\ BracketsOf(geom.pts, geom.arg)[k] \in 0..(Len(geom.pts) - 2)
               /\ k > 1 => BracketsOf(geom.pts, geom.arg)[k - 1]
                               <= BracketsOf(geom.pts, geom.arg)[k]

\* A polyline of four points has been resampled to three, the bracketing
\* index having moved on.
C29_ResampledAcrossSegments ==
    /\ geom.fn = "_resample_even"
    /\ Resamples(geom.pts, geom.arg)
    /\ Len(geom.pts) = 4
    /\ geom.arg = 3
    /\ BracketsOf(geom.pts, geom.arg)[3] > BracketsOf(geom.pts, geom.arg)[1]

\* The strictly increasing selections of k of the indices 1..n.
Selections(n, k) ==
    {f \in [1..k -> 1..n] : \A a \in 1..(k - 1) : f[a] < f[a + 1]}

\* C30: for at least 2 points and an epsilon that is not negative, the
\* result of ramer_douglas_peucker is a selection of the input points in
\* their order, each taken no more often than it is there, from the first
\* to the last, of at least 2 and at most len(points) points.
C30_SimplifiedIsSubsequence ==
    (geom.fn = "ramer_douglas_peucker" /\ Len(geom.pts) >= 2 /\ FLe(F(0), geom.arg)) =>
        /\ geom.r.err = ""
        /\ Len(geom.r.out) >= 2
        /\ Len(geom.r.out) <= Len(geom.pts)
        /\ \E f \in Selections(Len(geom.pts), Len(geom.r.out)) :
               /\ f[1] = 1
               /\ f[Len(geom.r.out)] = Len(geom.pts)
               /\ \A k \in 1..Len(geom.r.out) : geom.r.out[k] = geom.pts[f[k]]

\* A polyline of four points, none of them twice, has been simplified to
\* three with an epsilon that is not negative.
C30_InteriorPointKept ==
    /\ geom.fn = "ramer_douglas_peucker"
    /\ FLe(F(0), geom.arg)
    /\ Len(geom.pts) = 4
    /\ Cardinality(Range(geom.pts)) = 4
    /\ Len(geom.r.out) = 3

\* C22: smoothing never gives ramer_douglas_peucker more points than the
\* source cap, and never gives the Bezier fit more control points than
\* the control-point cap or fewer than 2.
C22_SmoothingRespectsCaps ==
    geom.fn = "smooth_apply" =>
        /\ \A l \in Range(geom.r.simplified) : Len(l) <= SourceCap
        /\ \A l \in Range(geom.r.fitted) : Len(l) <= MAX_CONTROL_POINTS /\ Len(l) >= 2

\* C22 for the curves that are longer than the length threshold.
C22_SmoothingOfLongCurvesRespectsCaps ==
    (geom.fn = "smooth_apply" /\ Len(geom.pts) >= 2 /\ FLt(TinyLength, ChordLength(geom.pts))) =>
        /\ \A l \in Range(geom.r.simplified) : Len(l) <= SourceCap
        /\ \A l \in Range(geom.r.fitted) : Len(l) <= MAX_CONTROL_POINTS /\ Len(l) >= 2

\* The object of the panel and the source its trim cuts from: the working
\* copy, or else the original.
TrimSource(name) ==
    IF Get(_working_curve_cache, name) # <<>> THEN Get(_working_curve_cache, name)
    ELSE Get(_original_curve_cache, name)

\* A step that changes nothing of the properties but the two trim sliders.
TrimOnly ==
    /\ PanelShown
    /\ pc' = "idle"
    /\ P' = [P EXCEPT !.trim_start = P'.trim_start, !.trim_end = P'.trim_end]

\* C26: for every source of N >= 2 points and all trim percentages in
\* 0..100, the interactive trim writes a contiguous slice
\* src[start_i..end_i] with 0 <= start_i <= end_i <= N-1 that holds at
\* least two points, and leaves the cached source as it was.
C26_TrimWritesAtLeastTwoPoints ==
    [][TrimOnly =>
          LET name == P.active_curve_name
              src == TrimSource(name)
              N == Len(src)
          IN  N >= 2 =>
                /\ \E start_i, end_i \in 0..(N - 1) :
                      /\ start_i <= end_i
                      /\ end_i - start_i + 1 >= 2
                      /\ objects'[name] = Present(SubSeq(src, start_i + 1, end_i + 1))
                /\ _original_curve_cache' = _original_curve_cache
                /\ _working_curve_cache' = _working_curve_cache]_vars

\* C24: after a successful build and any sequence of changes of the trim
\* start, the trim end and the simplify target, the visible polyline is the
\* trim window of the current start and end applied once to the built base
\* curve resampled to the current simplify target, whatever the order of
\* the changes was.
C24_VisibleIsTrimOfResampledBase ==
    PanelShown =>
        objects[P.active_curve_name].pts =
            TrimSlice(_resample_even(points, P.simplify_target).out, P.trim_start, P.trim_end)

\* A step of ATTRACTOR_OT_build.execute.
BuildStep == pc # "idle" \/ pc' # "idle"

\* C23: a build with the output name N, whether it succeeds or fails,
\* leaves the splines of every other existing curve object, and its
\* entries in the original, working and simplify-source caches, as they
\* were.
C23_BuildTouchesOnlyItsObject ==
    [][BuildStep =>
          \A n \in ObjNames \ {P.curve_name} :
              objects[n].has =>
                  /\ objects'[n] = objects[n]
                  /\ _original_curve_cache'[n] = _original_curve_cache[n]
                  /\ _working_curve_cache'[n] = _working_curve_cache[n]
                  /\ _simplify_source_cache'[n] = _simplify_source_cache[n]]_vars

\* The simulation parameters of the panel.
SimulationParameters ==
    <<P.attractor_type, P.custom_dx, P.custom_dy, P.custom_dz, P.x0, P.y0, P.z0,
      P.integration_method, P.dt, P.tolerance, P.min_dt, P.max_dt, P.steps, P.burn_in,
      P.scale, P.curve_name>>

\* The last build has failed.
BuildFailed == pc = "idle" /\ report.op = "build" /\ report.level = "ERROR"

\* The step that ends a build with success.
BuildSucceeds == pc # "idle" /\ pc' = "idle" /\ report'.op = "build" /\ report'.level = "INFO"

\* C27: a failed build leaves post-processing hidden and active_curve_name
\* empty; a successful build ends with post-processing shown, the active
\* curve set to the built object, the trim at 0 to 100, the simplify target
\* at the number of generated points, and the visible polyline and the
\* original cache entry both equal to the generated centred points; a later
\* change of a simulation parameter hides post-processing again.
C27_BuildOpensAndParametersHide ==
    /\ [](BuildFailed => ~P.show_post_processing /\ P.active_curve_name = "")
    /\ [][BuildSucceeds =>
             /\ P'.show_post_processing
             /\ P'.active_curve = P.curve_name
             /\ P'.active_curve_name = P.curve_name
             /\ P'.trim_start = 0
             /\ P'.trim_end = 100
             /\ points' = Centered(points)
             /\ P'.simplify_target = Len(points')
             /\ objects'[P.curve_name] = Present(points')
             /\ _original_curve_cache'[P.curve_name] = Present(points')]_vars
    /\ [][SimulationParameters' # SimulationParameters => ~P'.show_post_processing]_vars

\* A build has opened the panel on the curve it wrote, after an earlier
\* curve of another name had been trimmed.
C27_PanelOpenedOnBuiltCurve ==
    /\ PanelShown
    /\ report.level = "INFO"
    /\ P.active_curve_name = "Curve"
    /\ objects["Curve"].pts = points
    /\ Len(points) = PanelSteps
    /\ objects["Attractor"].has

\* The stepper the method dropdown names.
StepperNamed(method) ==
    CASE method = "EULER" -> "step_euler"
      [] method = "HEUN" -> "step_heun"
      [] method = "RK4" -> "step_rk4"
      [] method = "RKF45" -> "step_rkf45"
      [] method = "DP5" -> "step_dp5"

\* C28: after any sequence of method selections, attractor selections and
\* snapshot loads the dispatch fields agree with integration_method: a
\* fixed method M goes with the approach FIXED and method = M, an adaptive
\* method M with the approach ADAPTIVE and adaptive_method = M, so that the
\* stepper of a build is the one integration_method names.
C28_DispatchFollowsMethod ==
    /\ P.integration_method \in {"EULER", "HEUN", "RK4"} =>
           P.integration_approach = "FIXED" /\ P.method = P.integration_method
    /\ P.integration_method \in {"RKF45", "DP5"} =>
           P.integration_approach = "ADAPTIVE" /\ P.adaptive_method = P.integration_method
    /\ pc # "idle" => stepper = StepperNamed(P.integration_method)

\* A build runs the RKF45 stepper, picked after an entry had been loaded
\* (which sets the method back to RK4).
C28_AdaptiveBuildAfterLoad ==
    /\ pc = "adaptive"
    /\ stepper = "step_rkf45"
    /\ P.integration_method = "RKF45"
    /\ P.attractor_type = "Rot"

\* The three axis expressions as stored.
Axes == <<P.custom_dx, P.custom_dy, P.custom_dz>>

\* C25: a build in custom mode reaches the generation of the trajectory
\* only in the state OK, and the state is OK only with the stored axis
\* expressions being validated ones: a step that changes an axis
\* expression (typing, or loading an entry) leaves the state NONE unless it
\* has run the validation on the new expressions itself.
C25_ValidatedMeansCurrentExpressions ==
    /\ [](pc # "idle" /\ P.mode = "CUSTOM" => P.custom_validate_state = "OK")
    /\ [](P.custom_validate_state = "OK" =>
             build_rhs_function(P.custom_dx, P.custom_dy, P.custom_dz).ok)
    /\ [][Axes' # Axes =>
             \/ P'.custom_validate_state = "NONE"
             \/ P' = validate_and_update_params(P')]_vars

\* A custom build generates the trajectory of an expression that was
\* typed and then validated.
C25_TypedValidatedAndBuilt ==
    /\ pc = "fixed"
    /\ P.mode = "CUSTOM"
    /\ P.custom_dx = BinOp(Name("b"), "Mult", Name("x"))
    /\ P.custom_validate_state = "OK"

====
